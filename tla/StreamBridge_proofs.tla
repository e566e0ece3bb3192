------------------------- MODULE StreamBridge_proofs -------------------------
(***************************************************************************)
(* For every set of tool call indices, every set of chunks and every       *)
(* length of the backend's stream: StreamBridge keeps its types, delivers  *)
(* every piece on the block of its source, and implements AnthropicStream. *)
(***************************************************************************)
EXTENDS StreamBridge, SequenceTheorems, TLAPS

USE DEF AdoptedUsage, TakeIndex, NextPiece, IsNextToStop

(***************************************************************************)
(* Blocks are numbered without a gap: each index below the next one        *)
(* belongs to the text or to a tool call.                                  *)
(***************************************************************************)
NoGap ==
  \A i \in 0 .. next_block_index - 1 :
    i = text_block_index \/ \E t \in DOMAIN tool_blocks : tool_blocks[t] = i

(***************************************************************************)
(* The blocks still open are the ones from the next to stop to the last.   *)
(***************************************************************************)
Closing ==
  /\ pc \in {"start", "pull", "delta"} => stops = 0
  /\ pc = "start" => next_block_index = 0
  /\ pc = "closing" => /\ stops <= next_block_index
                       /\ open_indices = stops .. next_block_index - 1
  /\ pc \in {"ending", "done"} => stops = next_block_index

(***************************************************************************)
(* The chunk being translated is the last one pulled; between chunks its   *)
(* pieces are all behind the cursor.                                       *)
(***************************************************************************)
Cursor ==
  /\ pc = "delta" => /\ Len(log) > 0
                     /\ chunk = log[Len(log)]
                     /\ chunk.choices
                     /\ cur \in 0 .. Len(chunk.tools) + 1
  /\ pc \in {"start", "pull", "closing", "ending", "done"} /\ Len(log) > 0 =>
        (log[Len(log)].choices => cur > Len(log[Len(log)].tools))

Past(n, j) == n < Len(log) \/ j < cur

(***************************************************************************)
(* What has gone out is exactly the pieces behind the cursor.              *)
(***************************************************************************)
Delivered ==
  /\ \A n \in DOMAIN log : \A j \in 0 .. Len(log[n].tools) :
       HasPiece(n, j) /\ Past(n, j) => <<n, j, BlockOf(n, j)>> \in sent
  /\ \A e \in sent :
       /\ e[1] \in DOMAIN log
       /\ HasPiece(e[1], e[2])
       /\ e[2] = 0 => text_block_index # -1
       /\ e[2] # 0 => log[e[1]].tools[e[2]].index \in DOMAIN tool_blocks
       /\ e[3] = BlockOf(e[1], e[2])

IInv == TypeOK /\ OneBlockPerSource /\ NoGap /\ Closing /\ Cursor /\ Delivered
-----------------------------------------------------------------------------
(***************************************************************************)
(* Types.                                                                  *)
(***************************************************************************)
LEMMA PullType ==
  ASSUME TypeOK, NEW c \in Chunks, PullChunk(c)
  PROVE  TypeOK'
<1>1. c \in Chunk
  BY ChunksAssumption
<1>2. log' \in Seq(Chunk)
  BY <1>1 DEF TypeOK, PullChunk
<1>3. usage' \in Counts \cup {"zero"}
  BY DEF TypeOK, PullChunk
<1>4. QED
  BY <1>1, <1>2, <1>3 DEF TypeOK, PullChunk

LEMMA SentType ==
  ASSUME NEW n \in Nat, NEW j \in Nat, NEW b \in Nat, sent \subseteq Nat \X Nat \X Nat
  PROVE  sent \cup {<<n, j, b>>} \subseteq Nat \X Nat \X Nat
OBVIOUS

LEMMA OpenToolType ==
  ASSUME TypeOK, OpenTool
  PROVE  TypeOK'
<1>1. Tool \in ToolDelta
  BY DEF TypeOK, OpenTool, Chunk, Tool
<1>2. Tool.index \in ToolIndex
  BY <1>1 DEF ToolDelta
<1>3. DOMAIN tool_blocks' = DOMAIN tool_blocks \cup {Tool.index}
  BY DEF OpenTool
<1>4. ASSUME NEW t \in DOMAIN tool_blocks' PROVE tool_blocks'[t] \in 0 .. next_block_index' - 1
  BY <1>3, <1>4 DEF OpenTool, TypeOK
<1>5. QED
  BY <1>2, <1>3, <1>4 DEF TypeOK, OpenTool

LEMMA TypeStep ==
  ASSUME TypeOK, [Next]_vars
  PROVE  TypeOK'
<1>1. CASE MessageStart
  BY <1>1 DEF TypeOK, MessageStart
<1>2. ASSUME NEW c \in Chunks, PullChunk(c) PROVE TypeOK'
  BY <1>2, PullType
<1>3. CASE OpenText
  BY <1>3 DEF TypeOK, OpenText
<1>4. CASE TextDelta
  <2>1. Len(log) \in Nat /\ text_block_index \in Nat
    BY <1>4 DEF TypeOK, TextDelta
  <2>2. sent' \subseteq Nat \X Nat \X Nat
    BY <1>4, <2>1, SentType DEF TypeOK, TextDelta
  <2>3. QED
    BY <1>4, <2>2 DEF TypeOK, TextDelta
<1>5. CASE OpenTool
  BY <1>5, OpenToolType
<1>6. CASE ToolArgs
  <2>1. Len(log) \in Nat /\ cur \in Nat /\ tool_blocks[Tool.index] \in Nat
    BY <1>6 DEF TypeOK, ToolArgs
  <2>2. sent' \subseteq Nat \X Nat \X Nat
    BY <1>6, <2>1, SentType DEF TypeOK, ToolArgs
  <2>3. QED
    BY <1>6, <2>2 DEF TypeOK, ToolArgs
<1>7. CASE SkipPiece
  BY <1>7 DEF TypeOK, SkipPiece
<1>8. CASE EndChunk
  BY <1>8 DEF TypeOK, EndChunk, Chunk
<1>9. CASE ChunksOver
  BY <1>9 DEF TypeOK, ChunksOver
<1>10. CASE BlockStop
  BY <1>10 DEF TypeOK, BlockStop
<1>11. CASE MessageDelta
  BY <1>11 DEF TypeOK, MessageDelta
<1>12. CASE MessageStop
  BY <1>12 DEF TypeOK, MessageStop
<1>13. CASE Abort
  BY <1>13 DEF TypeOK, Abort
<1>14. CASE UNCHANGED vars
  BY <1>14 DEF TypeOK, vars
<1>15. QED
  BY <1>1, <1>2, <1>3, <1>4, <1>5, <1>6, <1>7, <1>8, <1>9, <1>10, <1>11, <1>12,
     <1>13, <1>14 DEF Next, Generator, Pull

LEMMA TypeInit == Init => TypeOK
BY ChunksAssumption DEF Init, TypeOK, NoChunk, Chunk

(***************************************************************************)
(* The bridge keeps its types: block indices stay below next_block_index   *)
(* whatever the backend sends.                                             *)
(***************************************************************************)
THEOREM TypeCorrect == Spec => []TypeOK
BY TypeInit, TypeStep, PTL DEF Spec
-----------------------------------------------------------------------------
(***************************************************************************)
(* Blocks.                                                                 *)
(***************************************************************************)
Blocks == OneBlockPerSource /\ NoGap /\ Closing

LEMMA BlocksStep ==
  ASSUME TypeOK, Blocks, [Next]_vars
  PROVE  Blocks'
<1> USE DEF Blocks
<1>1. CASE MessageStart
  BY <1>1 DEF TypeOK, MessageStart, OneBlockPerSource, NoGap, Closing
<1>2. ASSUME NEW c \in Chunks, PullChunk(c) PROVE Blocks'
  BY <1>2 DEF TypeOK, PullChunk, OneBlockPerSource, NoGap, Closing
<1>3. CASE OpenText
  BY <1>3 DEF TypeOK, OpenText, OneBlockPerSource, NoGap, Closing
<1>4. CASE TextDelta
  BY <1>4 DEF TypeOK, TextDelta, OneBlockPerSource, NoGap, Closing
<1>5. CASE OpenTool
  <2>1. /\ DOMAIN tool_blocks' = DOMAIN tool_blocks \cup {Tool.index}
        /\ tool_blocks'[Tool.index] = next_block_index
        /\ \A t \in DOMAIN tool_blocks : t # Tool.index /\ tool_blocks'[t] = tool_blocks[t]
    BY <1>5 DEF OpenTool
  <2>2. OneBlockPerSource'
    BY <1>5, <2>1 DEF TypeOK, OpenTool, OneBlockPerSource
  <2>3. NoGap'
    BY <1>5, <2>1 DEF TypeOK, OpenTool, NoGap
  <2>4. Closing'
    BY <1>5 DEF OpenTool, Closing
  <2>5. QED
    BY <2>2, <2>3, <2>4
<1>6. CASE ToolArgs
  BY <1>6 DEF TypeOK, ToolArgs, OneBlockPerSource, NoGap, Closing
<1>7. CASE SkipPiece
  BY <1>7 DEF TypeOK, SkipPiece, OneBlockPerSource, NoGap, Closing
<1>8. CASE EndChunk
  BY <1>8 DEF TypeOK, EndChunk, OneBlockPerSource, NoGap, Closing
<1>9. CASE ChunksOver
  <2>1. open_indices' = 0 .. next_block_index - 1
    <3>1. ASSUME NEW i \in open_indices' PROVE i \in 0 .. next_block_index - 1
      BY <1>9, <3>1 DEF ChunksOver, TypeOK
    <3>2. ASSUME NEW i \in 0 .. next_block_index - 1 PROVE i \in open_indices'
      BY <1>9, <3>2 DEF ChunksOver, NoGap, TypeOK
    <3>3. QED
      BY <3>1, <3>2
  <2>2. QED
    BY <1>9, <2>1 DEF TypeOK, ChunksOver, OneBlockPerSource, NoGap, Closing
<1>10. CASE BlockStop
  <2>1. PICK i \in open_indices :
          /\ \A k \in open_indices : i <= k
          /\ open_indices' = open_indices \ {i}
          /\ stops' = stops + 1
    BY <1>10 DEF BlockStop
  <2>2. i = stops
    BY <1>10, <2>1 DEF BlockStop, Closing, TypeOK
  <2>3. open_indices' = stops' .. next_block_index - 1
    BY <1>10, <2>1, <2>2 DEF BlockStop, Closing, TypeOK
  <2>4. QED
    BY <1>10, <2>1, <2>2, <2>3 DEF TypeOK, BlockStop, OneBlockPerSource, NoGap, Closing
<1>11. CASE MessageDelta
  BY <1>11 DEF TypeOK, MessageDelta, OneBlockPerSource, NoGap, Closing
<1>12. CASE MessageStop
  BY <1>12 DEF TypeOK, MessageStop, OneBlockPerSource, NoGap, Closing
<1>13. CASE Abort
  BY <1>13 DEF TypeOK, Abort, OneBlockPerSource, NoGap, Closing
<1>14. CASE UNCHANGED vars
  BY <1>14 DEF TypeOK, vars, OneBlockPerSource, NoGap, Closing
<1>15. QED
  BY <1>1, <1>2, <1>3, <1>4, <1>5, <1>6, <1>7, <1>8, <1>9, <1>10, <1>11, <1>12,
     <1>13, <1>14 DEF Next, Generator, Pull

LEMMA BlocksInit == Init => Blocks
BY DEF Init, Blocks, OneBlockPerSource, NoGap, Closing

-----------------------------------------------------------------------------
(***************************************************************************)
(* Deliveries.                                                             *)
(***************************************************************************)
LEMMA CursorStep ==
  ASSUME TypeOK, Cursor, [Next]_vars
  PROVE  Cursor'
<1>1. CASE MessageStart
  BY <1>1 DEF TypeOK, MessageStart, Cursor
<1>2. ASSUME NEW c \in Chunks, PullChunk(c) PROVE Cursor'
  <2>1. c \in Chunk
    BY ChunksAssumption
  <2>2. Len(log') = Len(log) + 1 /\ log'[Len(log')] = c
    BY <1>2, <2>1 DEF TypeOK, PullChunk
  <2>3. Len(c.tools) \in Nat
    BY <2>1 DEF Chunk
  <2>4. QED
    BY <1>2, <2>1, <2>2, <2>3 DEF TypeOK, PullChunk, Cursor
<1>3. CASE OpenText \/ OpenTool
  BY <1>3 DEF TypeOK, OpenText, OpenTool, Cursor
<1>4. CASE TextDelta \/ ToolArgs \/ SkipPiece
  <2>1. Len(chunk.tools) \in Nat /\ DOMAIN chunk.tools = 1 .. Len(chunk.tools)
    BY DEF TypeOK, Chunk
  <2>2. cur \in 0 .. Len(chunk.tools)
    BY <1>4, <2>1 DEF TextDelta, ToolArgs, SkipPiece
  <2>3. pc' = pc /\ cur' = cur + 1 /\ log' = log /\ chunk' = chunk /\ pc = "delta"
    BY <1>4 DEF TextDelta, ToolArgs, SkipPiece
  <2>4. QED
    BY <2>1, <2>2, <2>3 DEF Cursor
<1>5. CASE EndChunk
  BY <1>5 DEF TypeOK, EndChunk, Cursor
<1>6. CASE ChunksOver \/ BlockStop \/ MessageDelta \/ MessageStop \/ Abort
  BY <1>6 DEF TypeOK, ChunksOver, BlockStop, MessageDelta, MessageStop, Abort, Cursor
<1>7. CASE UNCHANGED vars
  BY <1>7 DEF vars, Cursor
<1>8. QED
  BY <1>1, <1>2, <1>3, <1>4, <1>5, <1>6, <1>7 DEF Next, Generator, Pull

LEMMA CursorInit == Init => Cursor
BY DEF Init, Cursor

(***************************************************************************)
(* A piece that was sent stays sent, on the same block.                    *)
(***************************************************************************)
LEMMA DeliveredFrame ==
  ASSUME TypeOK, Delivered,
         log' = log, sent' = sent, cur' = cur,
         UNCHANGED <<text_block_index, tool_blocks>>
  PROVE  Delivered'
BY DEF Delivered, HasPiece, Past, BlockOf

LEMMA DeliveredStep ==
  ASSUME TypeOK, Cursor, Delivered, [Next]_vars
  PROVE  Delivered'
<1>1. CASE MessageStart \/ EndChunk \/ ChunksOver \/ BlockStop \/ MessageDelta
            \/ MessageStop \/ Abort \/ UNCHANGED vars
  BY <1>1, DeliveredFrame
     DEF MessageStart, EndChunk, ChunksOver, BlockStop, MessageDelta, MessageStop, Abort, vars
<1>2. ASSUME NEW c \in Chunks, PullChunk(c) PROVE Delivered'
  <2>1. /\ c \in Chunk /\ Len(log) \in Nat
        /\ DOMAIN log = 1 .. Len(log) /\ DOMAIN log' = 1 .. Len(log) + 1
        /\ Len(log') = Len(log) + 1
        /\ \A n \in DOMAIN log : log'[n] = log[n]
    BY <1>2, ChunksAssumption DEF TypeOK, PullChunk
  <2>2. /\ cur' = 0 /\ sent' = sent /\ pc = "pull"
        /\ UNCHANGED <<text_block_index, tool_blocks>>
    BY <1>2 DEF PullChunk
  <2>3. ASSUME NEW n \in DOMAIN log', NEW j \in 0 .. Len(log'[n].tools),
               HasPiece(n, j)', Past(n, j)'
        PROVE  <<n, j, BlockOf(n, j)'>> \in sent'
    <3>1. n \in DOMAIN log /\ log'[n] = log[n]
      BY <2>1, <2>2, <2>3 DEF Past
    <3>2. HasPiece(n, j) /\ BlockOf(n, j)' = BlockOf(n, j)
      BY <2>2, <2>3, <3>1 DEF HasPiece, BlockOf
    <3>3. Past(n, j)
      <4>1. CASE n < Len(log)
        BY <4>1 DEF Past
      <4>2. CASE n = Len(log)
        <5>1. log[n] \in Chunk
          BY <3>1 DEF TypeOK
        <5>2. Len(log[n].tools) \in Nat
          BY <5>1 DEF Chunk
        <5>3. cur > Len(log[n].tools)
          BY <2>1, <2>2, <3>2, <4>2, <3>1 DEF Cursor, HasPiece
        <5>4. QED
          BY <5>2, <5>3, <3>1 DEF Past, TypeOK
      <4>3. QED
        BY <4>1, <4>2, <3>1, <2>1
    <3>4. QED
      BY <2>2, <3>1, <3>2, <3>3 DEF Delivered
  <2>4. ASSUME NEW e \in sent'
        PROVE  /\ e[1] \in DOMAIN log'
               /\ HasPiece(e[1], e[2])'
               /\ e[2] = 0 => text_block_index' # -1
               /\ e[2] # 0 => log'[e[1]].tools[e[2]].index \in DOMAIN tool_blocks'
               /\ e[3] = BlockOf(e[1], e[2])'
    BY <2>1, <2>2, <2>4 DEF Delivered, HasPiece, BlockOf
  <2>5. QED
    BY <2>3, <2>4 DEF Delivered
<1>3. CASE OpenText
  <2>1. /\ text_block_index = -1
        /\ UNCHANGED <<log, sent, cur, tool_blocks>>
        /\ \A n, j : HasPiece(n, j)' <=> HasPiece(n, j)
        /\ \A n, j : Past(n, j)' <=> Past(n, j)
    BY <1>3 DEF OpenText, HasPiece, Past
  <2>2. ASSUME NEW e \in sent
        PROVE  e[2] # 0 /\ BlockOf(e[1], e[2])' = BlockOf(e[1], e[2])
    BY <2>1, <2>2 DEF Delivered, BlockOf
  <2>3. ASSUME NEW n \in DOMAIN log', NEW j \in 0 .. Len(log'[n].tools),
               HasPiece(n, j)', Past(n, j)'
        PROVE  <<n, j, BlockOf(n, j)'>> \in sent'
    <3>1. <<n, j, BlockOf(n, j)>> \in sent
      BY <2>1, <2>3 DEF Delivered
    <3>2. BlockOf(n, j)' = BlockOf(n, j)
      BY <2>2, <3>1
    <3>3. QED
      BY <2>1, <3>1, <3>2
  <2>4. ASSUME NEW e \in sent'
        PROVE  /\ e[1] \in DOMAIN log'
               /\ HasPiece(e[1], e[2])'
               /\ e[2] = 0 => text_block_index' # -1
               /\ e[2] # 0 => log'[e[1]].tools[e[2]].index \in DOMAIN tool_blocks'
               /\ e[3] = BlockOf(e[1], e[2])'
    BY <2>1, <2>2, <2>4 DEF Delivered
  <2>5. QED
    BY <2>3, <2>4 DEF Delivered
<1>4. CASE OpenTool
  <2>1. /\ DOMAIN tool_blocks' = DOMAIN tool_blocks \cup {Tool.index}
        /\ \A t \in DOMAIN tool_blocks : tool_blocks'[t] = tool_blocks[t]
        /\ UNCHANGED <<log, sent, cur, text_block_index>>
    BY <1>4 DEF OpenTool
  <2>2. ASSUME NEW e \in sent
        PROVE  BlockOf(e[1], e[2])' = BlockOf(e[1], e[2])
    BY <2>1, <2>2 DEF Delivered, BlockOf
  <2>3. ASSUME NEW n \in DOMAIN log', NEW j \in 0 .. Len(log'[n].tools),
               HasPiece(n, j)', Past(n, j)'
        PROVE  <<n, j, BlockOf(n, j)'>> \in sent'
    <3>1. <<n, j, BlockOf(n, j)>> \in sent
      BY <2>1, <2>3 DEF Delivered, HasPiece, Past
    <3>2. BlockOf(n, j)' = BlockOf(n, j)
      BY <2>2, <3>1
    <3>3. QED
      BY <2>1, <3>1, <3>2
  <2>4. ASSUME NEW e \in sent'
        PROVE  /\ e[1] \in DOMAIN log'
               /\ HasPiece(e[1], e[2])'
               /\ e[2] = 0 => text_block_index' # -1
               /\ e[2] # 0 => log'[e[1]].tools[e[2]].index \in DOMAIN tool_blocks'
               /\ e[3] = BlockOf(e[1], e[2])'
    BY <2>1, <2>2, <2>4 DEF Delivered, HasPiece
  <2>5. QED
    BY <2>3, <2>4 DEF Delivered
<1>5. CASE TextDelta
  <2>1. /\ cur = 0 /\ cur' = 1 /\ chunk = log[Len(log)] /\ chunk.text /\ chunk.choices
        /\ Len(log) \in DOMAIN log
        /\ sent' = sent \cup {<<Len(log), 0, text_block_index>>}
        /\ text_block_index # -1
        /\ UNCHANGED <<log, text_block_index, tool_blocks>>
    BY <1>5 DEF TextDelta, Cursor, TypeOK
  <2>2. ASSUME NEW n \in DOMAIN log, NEW j \in 0 .. Len(log[n].tools),
               Past(n, j)'
        PROVE  Past(n, j) \/ (n = Len(log) /\ j = 0)
    BY <2>1, <2>2 DEF Past, TypeOK
  <2>3. QED
    BY <2>1, <2>2 DEF Delivered, HasPiece, BlockOf
<1>6. CASE ToolArgs
  <2>1. /\ cur \in DOMAIN chunk.tools /\ cur' = cur + 1 /\ chunk = log[Len(log)]
        /\ Tool.args /\ chunk.choices /\ Tool.index \in DOMAIN tool_blocks
        /\ Len(log) \in DOMAIN log
        /\ sent' = sent \cup {<<Len(log), cur, tool_blocks[Tool.index]>>}
        /\ UNCHANGED <<log, text_block_index, tool_blocks>>
    BY <1>6 DEF ToolArgs, Cursor, TypeOK
  <2>2. cur \in Nat \ {0}
    BY <2>1 DEF TypeOK, Chunk
  <2>3. ASSUME NEW n \in DOMAIN log, NEW j \in 0 .. Len(log[n].tools),
               Past(n, j)'
        PROVE  Past(n, j) \/ (n = Len(log) /\ j = cur)
    BY <2>1, <2>2, <2>3 DEF Past, TypeOK
  <2>4. BlockOf(Len(log), cur) = tool_blocks[Tool.index] /\ HasPiece(Len(log), cur)
    BY <2>1, <2>2 DEF BlockOf, HasPiece, Tool
  <2>5. log[Len(log)].tools[cur].index \in DOMAIN tool_blocks
    BY <2>1 DEF Tool
  <2>6. ASSUME NEW n \in DOMAIN log', NEW j \in 0 .. Len(log'[n].tools),
               HasPiece(n, j)', Past(n, j)'
        PROVE  <<n, j, BlockOf(n, j)'>> \in sent'
    <3>1. HasPiece(n, j) /\ BlockOf(n, j)' = BlockOf(n, j)
      BY <2>1, <2>6 DEF HasPiece, BlockOf
    <3>2. CASE Past(n, j)
      BY <2>1, <2>6, <3>1, <3>2 DEF Delivered
    <3>3. CASE n = Len(log) /\ j = cur
      BY <2>1, <2>4, <3>1, <3>3
    <3>4. QED
      BY <2>1, <2>3, <2>6, <3>2, <3>3
  <2>7. ASSUME NEW e \in sent'
        PROVE  /\ e[1] \in DOMAIN log'
               /\ HasPiece(e[1], e[2])'
               /\ e[2] = 0 => text_block_index' # -1
               /\ e[2] # 0 => log'[e[1]].tools[e[2]].index \in DOMAIN tool_blocks'
               /\ e[3] = BlockOf(e[1], e[2])'
    <3>1. \A n, j : HasPiece(n, j)' <=> HasPiece(n, j)
      BY <2>1 DEF HasPiece
    <3>2. BlockOf(e[1], e[2])' = BlockOf(e[1], e[2])
      BY <2>1 DEF BlockOf
    <3>3. CASE e \in sent
      BY <2>1, <3>1, <3>2, <3>3 DEF Delivered
    <3>4. CASE e = <<Len(log), cur, tool_blocks[Tool.index]>>
      BY SMTT(40), <2>1, <2>2, <2>4, <2>5, <3>1, <3>2, <3>4
    <3>5. QED
      BY <2>1, <2>7, <3>3, <3>4
  <2>8. QED
    BY <2>6, <2>7 DEF Delivered
<1>7. CASE SkipPiece
  <2>1. /\ cur' = cur + 1 /\ chunk = log[Len(log)] /\ UNCHANGED <<log, sent, text_block_index, tool_blocks>>
        /\ (cur = 0 /\ ~chunk.text) \/ (cur \in DOMAIN chunk.tools /\ ~chunk.tools[cur].args)
    BY <1>7 DEF SkipPiece, Cursor, Tool
  <2>2. DOMAIN chunk.tools = 1 .. Len(chunk.tools) /\ Len(chunk.tools) \in Nat
    BY DEF TypeOK, Chunk
  <2>3. ASSUME NEW n \in DOMAIN log, NEW j \in 0 .. Len(log[n].tools),
               HasPiece(n, j)', Past(n, j)'
        PROVE  HasPiece(n, j) /\ Past(n, j)
    BY <2>1, <2>2, <2>3 DEF Past, HasPiece, TypeOK
  <2>4. QED
    BY <2>1, <2>3 DEF Delivered, HasPiece, BlockOf
<1>8. QED
  BY <1>1, <1>2, <1>3, <1>4, <1>5, <1>6, <1>7 DEF Next, Generator, Pull

LEMMA DeliveredInit == Init => Delivered
BY DEF Init, Delivered

THEOREM Invariance == Spec => []IInv
<1>1. Init => IInv
  BY TypeInit, BlocksInit, CursorInit, DeliveredInit DEF IInv, Blocks
<1>2. IInv /\ [Next]_vars => IInv'
  BY TypeStep, BlocksStep, CursorStep, DeliveredStep DEF IInv, Blocks
<1>3. QED
  BY <1>1, <1>2, PTL DEF Spec
-----------------------------------------------------------------------------
(***************************************************************************)
(* Every tool call has a content block to itself.                          *)
(***************************************************************************)
THEOREM BlocksSeparate == Spec => []OneBlockPerSource
BY Invariance, PTL DEF IInv

(***************************************************************************)
(* Between chunks and after the last one, exactly the pieces received have *)
(* been delivered, each on the block of its source.                        *)
(***************************************************************************)
THEOREM Delivery == Spec => []PiecesDelivered
<1>1. IInv => PiecesDelivered
  <2> SUFFICES ASSUME IInv, pc \in {"pull", "closing", "ending", "done"}
               PROVE  /\ \A n \in DOMAIN log : \A j \in 0 .. Len(log[n].tools) :
                           HasPiece(n, j) => \E e \in sent : e[1] = n /\ e[2] = j
                      /\ \A e \in sent : HasPiece(e[1], e[2]) /\ e[3] = BlockOf(e[1], e[2])
    BY DEF PiecesDelivered
  <2>1. ASSUME NEW n \in DOMAIN log, NEW j \in 0 .. Len(log[n].tools), HasPiece(n, j)
        PROVE  Past(n, j)
    <3>1. n \in 1 .. Len(log) /\ log[n] \in Chunk /\ Len(log) \in Nat /\ cur \in Nat
      BY <2>1 DEF IInv, TypeOK
    <3>2. Len(log[n].tools) \in Nat
      BY <3>1 DEF Chunk
    <3>3. n = Len(log) => cur > Len(log[n].tools)
      BY <2>1, <3>1 DEF IInv, Cursor, HasPiece
    <3>4. QED
      BY <3>1, <3>2, <3>3 DEF Past
  <2>2. ASSUME NEW n \in DOMAIN log, NEW j \in 0 .. Len(log[n].tools), HasPiece(n, j)
        PROVE  \E e \in sent : e[1] = n /\ e[2] = j
    <3>1. <<n, j, BlockOf(n, j)>> \in sent
      BY <2>1, <2>2 DEF IInv, Delivered
    <3>2. QED
      BY <3>1
  <2>3. QED
    BY <2>2 DEF IInv, Delivered
<1>2. QED
  BY <1>1, Invariance, PTL

-----------------------------------------------------------------------------
(***************************************************************************)
(* Refinement.                                                             *)
(***************************************************************************)
LEMMA KindsAppend ==
  ASSUME TypeOK, next_block_index' = next_block_index + 1,
         NEW k \in {"text", "tool_use"},
         k = "text" => text_block_index = -1,
         text_block_index' = (IF k = "text" THEN next_block_index ELSE text_block_index)
  PROVE  KindsOf' = Append(KindsOf, k)
<1>1. /\ KindsOf \in Seq({"text", "tool_use"}) /\ Len(KindsOf) = next_block_index
      /\ KindsOf' \in Seq({"text", "tool_use"}) /\ Len(KindsOf') = next_block_index + 1
  BY DEF KindsOf, TypeOK
<1>2. /\ Append(KindsOf, k) \in Seq({"text", "tool_use"})
      /\ Len(Append(KindsOf, k)) = next_block_index + 1
      /\ Append(KindsOf, k)[next_block_index + 1] = k
      /\ \A i \in 1 .. next_block_index : Append(KindsOf, k)[i] = KindsOf[i]
  BY <1>1, AppendProperties
<1>3. ASSUME NEW i \in 1 .. next_block_index + 1
      PROVE  KindsOf'[i] = Append(KindsOf, k)[i]
  BY <1>2, <1>3 DEF KindsOf, TypeOK
<1>4. QED
  BY <1>1, <1>2, <1>3, SeqEqual

LEMMA RefinementInit == Init => Abstract!Init
BY DEF Init, Abstract!Init, Abstract!NoEvent, PhaseOf, KindsOf, EventOf

LEMMA RefinementStep ==
  ASSUME IInv, [Next]_vars
  PROVE  [Abstract!Next]_(Abstract!vars)
<1> USE DEF IInv
<1> DEFINE AVars == <<PhaseOf, KindsOf, stops, EventOf>>
<1>k. UNCHANGED <<next_block_index, text_block_index>> => KindsOf' = KindsOf
  BY DEF KindsOf
<1>1. CASE MessageStart
  <2>1. Abstract!MessageStart
    BY <1>1, <1>k DEF MessageStart, Abstract!MessageStart, PhaseOf, EventOf
  <2>2. QED
    BY <2>1 DEF Abstract!Next
<1>2. CASE (\E c \in Chunks : PullChunk(c)) \/ SkipPiece \/ EndChunk \/ ChunksOver
  <2>1. /\ UNCHANGED <<next_block_index, text_block_index, stops, ev>>
        /\ pc \in {"pull", "delta"} /\ pc' \in {"pull", "delta", "closing"}
    BY <1>2 DEF PullChunk, SkipPiece, EndChunk, ChunksOver
  <2>2. UNCHANGED AVars
    BY <2>1, <1>k DEF PhaseOf, EventOf
  <2>3. QED
    BY <2>2 DEF Abstract!vars
<1>3. CASE OpenText
  <2>1. KindsOf' = Append(KindsOf, "text")
    BY <1>3, KindsAppend DEF OpenText
  <2>2. Len(KindsOf) = next_block_index
    BY DEF KindsOf, TypeOK
  <2>3. Abstract!BlockStart("text")
    BY <1>3, <2>1, <2>2 DEF OpenText, Abstract!BlockStart, PhaseOf, EventOf, Closing
  <2>4. QED
    BY <2>3 DEF Abstract!Next, Abstract!Kind
<1>4. CASE OpenTool
  <2>1. KindsOf' = Append(KindsOf, "tool_use")
    BY <1>4, KindsAppend DEF OpenTool
  <2>2. Len(KindsOf) = next_block_index
    BY DEF KindsOf, TypeOK
  <2>3. Abstract!BlockStart("tool_use")
    BY <1>4, <2>1, <2>2 DEF OpenTool, Abstract!BlockStart, PhaseOf, EventOf, Closing
  <2>4. QED
    BY <2>3 DEF Abstract!Next, Abstract!Kind
<1>5. CASE TextDelta
  <2>1. /\ text_block_index + 1 \in DOMAIN KindsOf
        /\ KindsOf[text_block_index + 1] = "text"
        /\ (text_block_index + 1) - 1 = text_block_index
    BY <1>5 DEF TextDelta, KindsOf, TypeOK
  <2>2. Abstract!BlockDelta
    BY <1>5, <1>k, <2>1
       DEF TextDelta, Abstract!BlockDelta, Abstract!DeltaOf, PhaseOf, EventOf, Closing
  <2>3. QED
    BY <2>2 DEF Abstract!Next
<1>6. CASE ToolArgs
  <2> DEFINE b == tool_blocks[Tool.index]
  <2>1. b \in 0 .. next_block_index - 1 /\ b # text_block_index
    BY <1>6 DEF ToolArgs, TypeOK, OneBlockPerSource
  <2>2. /\ b + 1 \in DOMAIN KindsOf
        /\ KindsOf[b + 1] = "tool_use"
        /\ (b + 1) - 1 = b
    BY <2>1 DEF KindsOf, TypeOK
  <2>3. Abstract!BlockDelta
    BY <1>6, <1>k, <2>2
       DEF ToolArgs, Abstract!BlockDelta, Abstract!DeltaOf, PhaseOf, EventOf, Closing
  <2>4. QED
    BY <2>3 DEF Abstract!Next
<1>7. CASE BlockStop
  <2>1. Len(KindsOf) = next_block_index
    BY DEF KindsOf, TypeOK
  <2>2. PICK i \in open_indices :
          /\ \A k \in open_indices : i <= k
          /\ stops' = stops + 1
          /\ ev' = [type |-> "content_block_stop", index |-> i]
    BY <1>7 DEF BlockStop
  <2>3. i = stops /\ stops < next_block_index
    BY <1>7, <2>2 DEF BlockStop, Closing, TypeOK
  <2>4. Abstract!BlockStop
    BY <1>7, <1>k, <2>1, <2>2, <2>3 DEF BlockStop, Abstract!BlockStop, PhaseOf, EventOf
  <2>5. QED
    BY <2>4 DEF Abstract!Next
<1>8. CASE MessageDelta
  <2>1. Len(KindsOf) = next_block_index
    BY DEF KindsOf, TypeOK
  <2>2. stops = next_block_index
    <3>1. stops .. next_block_index - 1 = {} /\ stops <= next_block_index
      BY <1>8 DEF MessageDelta, Closing
    <3>2. QED
      BY <3>1 DEF TypeOK
  <2>3. Abstract!MessageDelta
    BY <1>8, <1>k, <2>1, <2>2 DEF MessageDelta, Abstract!MessageDelta, PhaseOf, EventOf
  <2>4. QED
    BY <2>3 DEF Abstract!Next
<1>9. CASE MessageStop
  <2>1. Abstract!MessageStop
    BY <1>9, <1>k DEF MessageStop, Abstract!MessageStop, PhaseOf, EventOf
  <2>2. QED
    BY <2>1 DEF Abstract!Next
<1>10. CASE Abort
  <2>1. Abstract!Cut
    BY <1>10, <1>k DEF Abort, Abstract!Cut, PhaseOf, EventOf, TypeOK
  <2>2. QED
    BY <2>1 DEF Abstract!Next
<1>11. CASE UNCHANGED vars
  BY <1>11, <1>k DEF vars, Abstract!vars, PhaseOf, EventOf
<1>12. QED
  BY <1>1, <1>2, <1>3, <1>4, <1>5, <1>6, <1>7, <1>8, <1>9, <1>10, <1>11
     DEF Next, Generator, Pull

(***************************************************************************)
(* The bridge implements the event grammar, whatever the backend sends and *)
(* wherever the stream is cut.                                             *)
(***************************************************************************)
THEOREM Refinement == Spec => ImplementsStream
BY RefinementInit, RefinementStep, Invariance, PTL DEF Spec, ImplementsStream, Abstract!Spec
=============================================================================
