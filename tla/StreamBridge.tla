---------------------------- MODULE StreamBridge ----------------------------
(***************************************************************************)
(* proxy/litellm_bridge.py, stream_to_anthropic_events: the generator that *)
(* turns a stream of OpenAI-style chunks into Anthropic events.  One       *)
(* action per yield, plus the steps at which the generator pulls a chunk,  *)
(* runs out of chunks, or is ended from outside.                           *)
(*                                                                         *)
(* Wording is abstracted: a piece of text or of tool arguments is just     *)
(* "there" or "not there".  What is kept is which pieces a chunk carries,  *)
(* in which order, and for which tool call.                                *)
(***************************************************************************)
EXTENDS Naturals, Integers, Sequences, FiniteSets

CONSTANTS
  ToolIndex,     \* the values of tool_calls[*].index
  Counts,        \* usage records that carry token counts
  Reasons,       \* finish reasons
  Chunks,        \* the chunks the backend may send
  MaxChunks      \* bound on the length of the backend's stream

None == "none"   \* a falsy or missing field

ToolDelta == [index : ToolIndex, args : BOOLEAN]

Chunk == [usage   : Counts \cup {None, "unkeyed"},
          choices : BOOLEAN,
          text    : BOOLEAN,
          tools   : Seq(ToolDelta),
          finish  : Reasons \cup {None}]

ASSUME ChunksAssumption ==
  /\ Chunks \subseteq Chunk
  /\ MaxChunks \in Nat
  /\ None \notin Counts \cup Reasons
  /\ {"unkeyed", "zero"} \cap Counts = {}

VARIABLES
  pc,                \* where the generator is suspended
  text_block_index,  \* index of the text block, or -1 (Python None)
  tool_blocks,       \* tool call index -> block index, a partial function
  next_block_index,
  usage,
  finish_reason,
  chunk,             \* the chunk being translated
  cur,               \* next piece of it: 0 is the text, j the j-th tool call
  open_indices,      \* blocks still to be stopped, once the chunks are over
  stops,             \* history: how many content_block_stop events went out
  ev,                \* the event yielded last
  log,               \* history: the chunks pulled so far
  sent               \* history: <<n, j, b>> when piece j of chunk n went out on block b

vars == <<pc, text_block_index, tool_blocks, next_block_index, usage,
          finish_reason, chunk, cur, open_indices, stops, ev, log, sent>>

NoChunk == [usage |-> None, choices |-> FALSE, text |-> FALSE,
            tools |-> <<>>, finish |-> None]

Init ==
  /\ pc = "start"
  /\ text_block_index = -1
  /\ tool_blocks = [t \in {} |-> 0]
  /\ next_block_index = 0
  /\ usage = "zero"
  /\ finish_reason = None
  /\ chunk = NoChunk
  /\ cur = 0
  /\ open_indices = {}
  /\ stops = 0
  /\ ev = [type |-> "none"]
  /\ log = <<>>
  /\ sent = {}

MessageStart ==
  /\ pc = "start"
  /\ pc' = "pull"
  /\ ev' = [type |-> "message_start"]
  /\ UNCHANGED <<text_block_index, tool_blocks, next_block_index, usage,
                 finish_reason, chunk, cur, open_indices, stops, log, sent>>

(***************************************************************************)
(* "only adopt if the keys we need are actually present"                   *)
(***************************************************************************)
AdoptedUsage_Unguarded(u) == IF u # None THEN u ELSE usage
AdoptedUsage(u) == IF u \in Counts THEN u ELSE usage

(***************************************************************************)
(* A block that opens takes the next index.                                *)
(***************************************************************************)
TakeIndex_Forgotten == UNCHANGED next_block_index
TakeIndex == next_block_index' = next_block_index + 1

(***************************************************************************)
(* The piece after the one just handled.                                   *)
(***************************************************************************)
NextPiece_Continue == Len(chunk.tools) + 1
NextPiece == cur + 1

(***************************************************************************)
(* The loop head: adopt the chunk's usage when it carries counts, skip a   *)
(* chunk without choices, otherwise translate the delta.                   *)
(***************************************************************************)
PullChunk(c) ==
  /\ pc = "pull"
  /\ Len(log) < MaxChunks
  /\ log' = Append(log, c)
  /\ usage' = AdoptedUsage(c.usage)
  /\ chunk' = c
  /\ cur' = 0
  /\ pc' = IF c.choices THEN "delta" ELSE "pull"
  /\ UNCHANGED <<text_block_index, tool_blocks, next_block_index,
                 finish_reason, open_indices, stops, ev, sent>>

OpenText ==
  /\ pc = "delta"
  /\ cur = 0 /\ chunk.text
  /\ text_block_index = -1
  /\ text_block_index' = next_block_index
  /\ TakeIndex
  /\ ev' = [type |-> "content_block_start", index |-> next_block_index, kind |-> "text"]
  /\ UNCHANGED <<pc, tool_blocks, usage, finish_reason, chunk, cur,
                 open_indices, stops, log, sent>>

TextDelta ==
  /\ pc = "delta"
  /\ cur = 0 /\ chunk.text
  /\ text_block_index # -1
  /\ ev' = [type |-> "content_block_delta", index |-> text_block_index, delta |-> "text_delta"]
  /\ sent' = sent \cup {<<Len(log), 0, text_block_index>>}
  /\ cur' = NextPiece
  /\ UNCHANGED <<pc, text_block_index, tool_blocks, next_block_index, usage,
                 finish_reason, chunk, open_indices, stops, log>>

(***************************************************************************)
(* The tool call the loop is at.                                           *)
(***************************************************************************)
Tool == chunk.tools[cur]

OpenTool ==
  /\ pc = "delta"
  /\ cur \in DOMAIN chunk.tools
  /\ Tool.index \notin DOMAIN tool_blocks
  /\ tool_blocks' = [t \in DOMAIN tool_blocks \cup {Tool.index} |->
                       IF t = Tool.index THEN next_block_index ELSE tool_blocks[t]]
  /\ TakeIndex
  /\ ev' = [type |-> "content_block_start", index |-> next_block_index, kind |-> "tool_use"]
  /\ UNCHANGED <<pc, text_block_index, usage, finish_reason, chunk, cur,
                 open_indices, stops, log, sent>>

ToolArgs ==
  /\ pc = "delta"
  /\ cur \in DOMAIN chunk.tools
  /\ Tool.index \in DOMAIN tool_blocks
  /\ Tool.args
  /\ ev' = [type |-> "content_block_delta", index |-> tool_blocks[Tool.index],
            delta |-> "input_json_delta"]
  /\ sent' = sent \cup {<<Len(log), cur, tool_blocks[Tool.index]>>}
  /\ cur' = NextPiece
  /\ UNCHANGED <<pc, text_block_index, tool_blocks, next_block_index, usage,
                 finish_reason, chunk, open_indices, stops, log>>

(***************************************************************************)
(* Falling through: a delta without content, a tool call whose block is    *)
(* open and that brings no arguments, and the end of the tool loop, where  *)
(* the finish reason is taken and the next chunk awaited.                  *)
(***************************************************************************)
SkipPiece ==
  /\ pc = "delta"
  /\ \/ cur = 0 /\ ~chunk.text
     \/ /\ cur \in DOMAIN chunk.tools
        /\ Tool.index \in DOMAIN tool_blocks
        /\ ~Tool.args
  /\ cur' = NextPiece
  /\ UNCHANGED <<pc, text_block_index, tool_blocks, next_block_index, usage,
                 finish_reason, chunk, open_indices, stops, ev, log, sent>>

EndChunk ==
  /\ pc = "delta"
  /\ cur > Len(chunk.tools)
  /\ finish_reason' = IF chunk.finish # None THEN chunk.finish ELSE finish_reason
  /\ pc' = "pull"
  /\ UNCHANGED <<text_block_index, tool_blocks, next_block_index, usage,
                 chunk, cur, open_indices, stops, ev, log, sent>>

(***************************************************************************)
(* The chunks are exhausted: collect the blocks to stop.                   *)
(***************************************************************************)
ChunksOver ==
  /\ pc = "pull"
  /\ open_indices' = {tool_blocks[t] : t \in DOMAIN tool_blocks}
                       \cup (IF text_block_index # -1 THEN {text_block_index} ELSE {})
  /\ pc' = "closing"
  /\ UNCHANGED <<text_block_index, tool_blocks, next_block_index, usage,
                 finish_reason, chunk, cur, ev, log, sent, stops>>

(***************************************************************************)
(* The loop over sorted(open_indices).                                     *)
(***************************************************************************)
IsNextToStop_Unsorted(i) == TRUE
IsNextToStop(i) == \A k \in open_indices : i <= k

BlockStop ==
  /\ pc = "closing"
  /\ \E i \in open_indices :
       /\ IsNextToStop(i)
       /\ open_indices' = open_indices \ {i}
       /\ stops' = stops + 1
       /\ ev' = [type |-> "content_block_stop", index |-> i]
  /\ UNCHANGED <<pc, text_block_index, tool_blocks, next_block_index, usage,
                 finish_reason, chunk, cur, log, sent>>

MessageDelta ==
  /\ pc = "closing"
  /\ open_indices = {}
  /\ ev' = [type |-> "message_delta", usage |-> usage, stop |-> finish_reason]
  /\ pc' = "ending"
  /\ UNCHANGED <<text_block_index, tool_blocks, next_block_index, usage,
                 finish_reason, chunk, cur, open_indices, stops, log, sent>>

MessageStop ==
  /\ pc = "ending"
  /\ ev' = [type |-> "message_stop"]
  /\ pc' = "done"
  /\ UNCHANGED <<text_block_index, tool_blocks, next_block_index, usage,
                 finish_reason, chunk, cur, open_indices, stops, log, sent>>

(***************************************************************************)
(* The backend's iterator raises at the await (only at a pull), or the     *)
(* consumer closes the generator at a yield.  There is no handler: no      *)
(* further event is sent and no block is stopped.                          *)
(***************************************************************************)
Abort ==
  /\ pc # "done" /\ pc # "aborted"
  /\ pc' = "aborted"
  /\ UNCHANGED <<text_block_index, tool_blocks, next_block_index, usage,
                 finish_reason, chunk, cur, open_indices, stops, ev, log,
                 sent>>

Pull == \E c \in Chunks : PullChunk(c)

Generator ==
  \/ MessageStart \/ OpenText \/ TextDelta \/ OpenTool \/ ToolArgs \/ SkipPiece
  \/ EndChunk \/ BlockStop \/ MessageDelta \/ MessageStop

Next == Generator \/ Pull \/ ChunksOver \/ Abort

Spec == Init /\ [][Next]_vars
-----------------------------------------------------------------------------
(***************************************************************************)
(* The types of the variables, and the ranges the code keeps them in.      *)
(***************************************************************************)
TypeOK ==
  /\ pc \in {"start", "pull", "delta", "closing", "ending", "done", "aborted"}
  /\ next_block_index \in Nat
  /\ text_block_index \in Int
  /\ text_block_index = -1 \/ text_block_index \in 0 .. next_block_index - 1
  /\ DOMAIN tool_blocks \subseteq ToolIndex
  /\ \A t \in DOMAIN tool_blocks : tool_blocks[t] \in 0 .. next_block_index - 1
  /\ usage \in Counts \cup {"zero"}
  /\ finish_reason \in Reasons \cup {None}
  /\ chunk \in Chunk
  /\ cur \in Nat
  /\ open_indices \subseteq Nat
  /\ stops \in Nat
  /\ log \in Seq(Chunk)
  /\ sent \subseteq Nat \X Nat \X Nat

(***************************************************************************)
(* Every tool call has a block of its own, and none of them is the text    *)
(* block: argument pieces of parallel calls can never be mixed in one      *)
(* block, however the backend interleaves them.                            *)
(***************************************************************************)
OneBlockPerSource ==
  /\ \A t \in DOMAIN tool_blocks : tool_blocks[t] # text_block_index
  /\ \A t, u \in DOMAIN tool_blocks : tool_blocks[t] = tool_blocks[u] => t = u

(***************************************************************************)
(* Piece j of chunk n: the text is piece 0, the j-th tool call piece j.    *)
(***************************************************************************)
HasPiece(n, j) ==
  /\ log[n].choices
  /\ \/ j = 0 /\ log[n].text
     \/ j \in DOMAIN log[n].tools /\ log[n].tools[j].args

BlockOf(n, j) == IF j = 0 THEN text_block_index ELSE tool_blocks[log[n].tools[j].index]

(***************************************************************************)
(* Whenever the generator is between chunks or past them, everything the   *)
(* backend sent has gone out, on the block of its own source, and nothing  *)
(* else has.  (On an aborted stream the rest of a chunk may be lost.)      *)
(***************************************************************************)
PiecesDelivered ==
  pc \in {"pull", "closing", "ending", "done"} =>
    /\ \A n \in DOMAIN log : \A j \in 0 .. Len(log[n].tools) :
         HasPiece(n, j) => \E e \in sent : e[1] = n /\ e[2] = j
    /\ \A e \in sent : HasPiece(e[1], e[2]) /\ e[3] = BlockOf(e[1], e[2])

(***************************************************************************)
(* The events, seen through this mapping, obey the grammar of              *)
(* AnthropicStream: contiguous indices, typed deltas on open blocks only,  *)
(* stops in the order of the starts, nothing after message_stop.           *)
(***************************************************************************)
PhaseOf ==
  CASE pc = "start" -> "idle"
    [] pc \in {"pull", "delta", "closing"} -> "content"
    [] pc = "ending" -> "ended"
    [] pc = "done" -> "done"
    [] pc = "aborted" -> "cut"

KindsOf == [i \in 1 .. next_block_index |->
              IF i - 1 = text_block_index THEN "text" ELSE "tool_use"]

EventOf == IF ev.type = "message_delta" THEN [type |-> "message_delta"] ELSE ev

Abstract == INSTANCE AnthropicStream
              WITH phase <- PhaseOf, kinds <- KindsOf, stopped <- stops, ev <- EventOf

ImplementsStream == Abstract!Spec
=============================================================================
