--------------------------- MODULE StreamTranslate ---------------------------
(***************************************************************************)
(* A streamed answer that the adapter translates for the client: the       *)
(* gateway's lines come in (sse.js), the frames of the Messages API go out *)
(* (stream.js, and streamMessage() in server.js).  One action is one frame *)
(* or the arrival of one line.                                             *)
(*                                                                         *)
(* The answer has channels: its text and its tool calls.  The pieces that  *)
(* the gateway sends on a channel are numbered.                            *)
(***************************************************************************)
EXTENDS Naturals, Sequences

CONSTANTS
  Text,       \* the channel of the text
  Tools,      \* indices of tool calls
  MaxLines,   \* bound: lines of the gateway
  MaxOps,     \* bound: pieces in one line
  None

Channels == {Text} \cup Tools

ASSUME TextAssumption == Text \notin Tools

ASSUME NoneAssumption == None \notin Nat

ASSUME BoundsAssumption == MaxLines \in Nat /\ MaxOps \in Nat

VARIABLES
  dialect,     \* the translated route: "chat" or "responses"
  phase,
  lines,       \* how many lines were read
  todo,        \* what of the last line is still to be sent
  textOpen,
  textIndex,
  nextBlock,
  toolBlock,   \* toolBlockIndex: the block of a tool call
  sent,        \* history: how many pieces the gateway sent on a channel
  dropped,     \* history: the last line had no newline
  blocks,      \* the blocks the client was told of, the first is block 0
  end          \* how the stream ended for the client

local == <<dialect, phase, lines, todo, textOpen, textIndex, nextBlock, toolBlock, sent, dropped>>

vars == <<local, blocks, end>>

Phases == {"fetch", "reading", "failing", "closing", "ended"}

\* A piece for a channel; a tool call may be announced without one.
Op == [to : Channels, piece : Nat]

Block == [to : Channels, open : BOOLEAN, got : Seq(Nat)]

TypeOK ==
  /\ dialect \in {"chat", "responses"}
  /\ phase \in Phases
  /\ lines \in 0..MaxLines
  /\ todo \in Seq(Op)
  /\ textOpen \in BOOLEAN
  /\ nextBlock = Len(blocks)
  /\ textIndex \in Nat
  /\ toolBlock \in [Tools -> Nat \cup {None}]
  /\ sent \in [Channels -> Nat]
  /\ dropped \in BOOLEAN
  /\ blocks \in Seq(Block)
  /\ end \in {"none", "open", "complete", "error", "cut", "refused"}

Init ==
  /\ dialect \in {"chat", "responses"}
  /\ phase = "fetch"
  /\ lines = 0
  /\ todo = <<>>
  /\ textOpen = FALSE
  /\ textIndex = 0
  /\ nextBlock = 0
  /\ toolBlock = [i \in Tools |-> None]
  /\ sent = [c \in Channels |-> 0]
  /\ dropped = FALSE
  /\ blocks = <<>>
  /\ end = "none"

-----------------------------------------------------------------------------
\* Frames.

\* Mutant: the index is not counted up.
SameIndex == nextBlock

NextIndex == nextBlock + 1

\* content_block_start
StartBlock(c) ==
  /\ blocks' = Append(blocks, [to |-> c, open |-> TRUE, got |-> <<>>])
  /\ nextBlock' = NextIndex

\* content_block_delta
SendPiece(index, piece) ==
  blocks' = [blocks EXCEPT ![index + 1].got = Append(@, piece)]

\* content_block_stop
StopBlock(index) == blocks' = [blocks EXCEPT ![index + 1].open = FALSE]

-----------------------------------------------------------------------------
\* The gateway.

\* What one line can hold: for each channel at most one piece, the text first; a
\* line of the responses dialect holds one piece.
Line ==
  {l \in UNION {[1..n -> [to : Channels, piece : BOOLEAN]] : n \in 0..MaxOps} :
     /\ \A i, j \in DOMAIN l : l[i].to = l[j].to => i = j
     /\ \A i \in DOMAIN l : l[i].to = Text => i = 1 /\ l[i].piece
     /\ dialect = "responses" => Len(l) <= 1}

Sent(l) ==
  [c \in Channels |-> IF \E i \in DOMAIN l : l[i].to = c /\ l[i].piece THEN sent[c] + 1 ELSE sent[c]]

\* Mutant: a line yields the arguments accumulated so far, from the first piece on.
Accumulated(l) ==
  [i \in DOMAIN l |-> [to |-> l[i].to, piece |-> IF l[i].to \in Tools THEN 1 ELSE sent[Text] + 1]]

\* translateResponsesStream() knows no event of a function call.
Understood(l) ==
  LET ops == [i \in DOMAIN l |->
                [to |-> l[i].to, piece |-> IF l[i].piece THEN sent[l[i].to] + 1 ELSE 0]]
  IN IF dialect = "responses" /\ l # <<>> /\ l[1].to # Text THEN <<>> ELSE ops

\* The request fails, or is answered with an error.
FetchFails ==
  /\ phase = "fetch"
  /\ phase' = "ended"
  /\ end' = "refused"
  /\ UNCHANGED <<dialect, lines, todo, textOpen, textIndex, nextBlock, toolBlock, sent, dropped, blocks>>

\* message_start; the responses dialect opens its only block at once.
Begin ==
  /\ phase = "fetch"
  /\ phase' = "reading"
  /\ end' = "open"
  /\ IF dialect = "responses"
     THEN StartBlock(Text) /\ textOpen' = TRUE
     ELSE UNCHANGED <<blocks, nextBlock, textOpen>>
  /\ UNCHANGED <<dialect, lines, todo, textIndex, toolBlock, sent, dropped>>

Waiting == phase = "reading" /\ todo = <<>>

ReadLine(l) ==
  /\ Waiting
  /\ lines < MaxLines
  /\ lines' = lines + 1
  /\ todo' = Understood(l)
  /\ sent' = Sent(l)
  /\ UNCHANGED <<dialect, phase, textOpen, textIndex, nextBlock, toolBlock, dropped, blocks, end>>

ReadError ==
  /\ Waiting
  /\ phase' = "failing"
  /\ UNCHANGED <<dialect, lines, todo, textOpen, textIndex, nextBlock, toolBlock, sent, dropped, blocks, end>>

\* The body ends.
GatewayEnds ==
  /\ Waiting
  /\ phase' = "closing"
  /\ UNCHANGED <<dialect, lines, todo, textOpen, textIndex, nextBlock, toolBlock, sent, dropped, blocks, end>>

\* The body ends in a line without newline, which the parser keeps to itself.
GatewayEndsInLine(l) ==
  /\ Waiting
  /\ lines < MaxLines
  /\ lines' = lines + 1
  /\ phase' = "closing"
  /\ sent' = Sent(l)
  /\ dropped' = TRUE
  /\ UNCHANGED <<dialect, todo, textOpen, textIndex, nextBlock, toolBlock, blocks, end>>

\* Reading the body throws: the answer ends where it is.
GatewayBreaks ==
  /\ Waiting
  /\ phase' = "ended"
  /\ end' = "cut"
  /\ UNCHANGED <<dialect, lines, todo, textOpen, textIndex, nextBlock, toolBlock, sent, dropped, blocks>>

-----------------------------------------------------------------------------
\* The translators.

op == Head(todo)

OpenText ==
  /\ phase = "reading" /\ todo # <<>>
  /\ op.to = Text
  /\ ~textOpen
  /\ textOpen' = TRUE
  /\ textIndex' = nextBlock
  /\ StartBlock(Text)
  /\ UNCHANGED <<dialect, phase, lines, todo, toolBlock, sent, dropped, end>>

SendText ==
  /\ phase = "reading" /\ todo # <<>>
  /\ op.to = Text
  /\ textOpen
  /\ SendPiece(textIndex, op.piece)
  /\ todo' = Tail(todo)
  /\ UNCHANGED <<dialect, phase, lines, textOpen, textIndex, nextBlock, toolBlock, sent, dropped, end>>

IsNew(c) == c \in Tools /\ toolBlock[c] = None

MeetsNewTool == phase = "reading" /\ todo # <<>> /\ IsNew(op.to)

\* The text is closed before a new tool call, and when the stream ends.
ClosesText ==
  \/ MeetsNewTool
  \/ phase = "failing" /\ dialect = "chat"
  \/ phase = "closing"

\* Mutant: the text is closed without telling the client.
CloseSilently ==
  /\ ClosesText
  /\ textOpen
  /\ textOpen' = FALSE
  /\ UNCHANGED <<dialect, phase, lines, todo, textIndex, nextBlock, toolBlock, sent, dropped, blocks, end>>

CloseText ==
  /\ ClosesText
  /\ textOpen
  /\ textOpen' = FALSE
  /\ StopBlock(textIndex)
  /\ UNCHANGED <<dialect, phase, lines, todo, textIndex, nextBlock, toolBlock, sent, dropped, end>>

\* Mutant: the arguments that come with the announcement of a call are passed over.
StartOnly ==
  /\ phase = "reading" /\ todo # <<>>
  /\ IsNew(op.to)
  /\ ~textOpen
  /\ toolBlock' = [toolBlock EXCEPT ![op.to] = nextBlock]
  /\ StartBlock(op.to)
  /\ todo' = Tail(todo)
  /\ UNCHANGED <<dialect, phase, lines, textOpen, textIndex, sent, dropped, end>>

StartTool ==
  /\ phase = "reading" /\ todo # <<>>
  /\ IsNew(op.to)
  /\ ~textOpen
  /\ toolBlock' = [toolBlock EXCEPT ![op.to] = nextBlock]
  /\ StartBlock(op.to)
  /\ UNCHANGED <<dialect, phase, lines, todo, textOpen, textIndex, sent, dropped, end>>

\* The arguments of a call that is known, if there are any.
SendArguments ==
  /\ phase = "reading" /\ todo # <<>>
  /\ op.to \in Tools /\ ~IsNew(op.to)
  /\ todo' = Tail(todo)
  /\ IF op.piece = 0 THEN UNCHANGED blocks ELSE SendPiece(toolBlock[op.to], op.piece)
  /\ UNCHANGED <<dialect, phase, lines, textOpen, textIndex, nextBlock, toolBlock, sent, dropped, end>>

\* No block is closed for an error but the text of the chat dialect.
SendError ==
  /\ phase = "failing"
  /\ dialect = "chat" => ~textOpen
  /\ phase' = "ended"
  /\ end' = "error"
  /\ UNCHANGED <<dialect, lines, todo, textOpen, textIndex, nextBlock, toolBlock, sent, dropped, blocks>>

IsOpen(index) == index # None /\ blocks[index + 1].open

\* The calls are closed in the order they were opened.
StopTool(i) ==
  /\ phase = "closing"
  /\ ~textOpen
  /\ IsOpen(toolBlock[i])
  /\ \A j \in Tools : IsOpen(toolBlock[j]) => toolBlock[i] <= toolBlock[j]
  /\ StopBlock(toolBlock[i])
  /\ UNCHANGED <<dialect, phase, lines, todo, textOpen, textIndex, nextBlock, toolBlock, sent, dropped, end>>

\* Mutant: only the text is closed.
OnlyTextClosed == ~textOpen

NothingToClose == ~textOpen /\ \A i \in Tools : ~IsOpen(toolBlock[i])

\* message_delta and message_stop
Finish ==
  /\ phase = "closing"
  /\ NothingToClose
  /\ phase' = "ended"
  /\ end' = "complete"
  /\ UNCHANGED <<dialect, lines, todo, textOpen, textIndex, nextBlock, toolBlock, sent, dropped, blocks>>

Terminated == phase = "ended" /\ UNCHANGED vars

-----------------------------------------------------------------------------
Gateway ==
  \/ FetchFails \/ ReadError \/ GatewayEnds \/ GatewayBreaks
  \/ \E l \in Line : ReadLine(l) \/ GatewayEndsInLine(l)

Translate ==
  \/ Begin \/ OpenText \/ SendText \/ CloseText \/ StartTool \/ SendArguments
  \/ SendError \/ Finish
  \/ \E i \in Tools : StopTool(i)

Next == Gateway \/ Translate \/ Terminated

Spec == Init /\ [][Next]_vars

-----------------------------------------------------------------------------
\* Whatever text and tool calls are interleaved, the client reads the pieces of
\* each of them in the order in which the gateway sent them and none twice, and
\* nothing that was not sent (translateChatStream(), translateResponsesStream()).
PiecesInOrder ==
  \A a, b \in DOMAIN blocks : \A i \in DOMAIN blocks[a].got, j \in DOMAIN blocks[b].got :
    /\ blocks[a].got[i] \in 1..sent[blocks[a].to]
    /\ blocks[a].to = blocks[b].to /\ (a < b \/ (a = b /\ i < j)) =>
         blocks[a].got[i] < blocks[b].got[j]

BlocksOf(c) == {b \in DOMAIN blocks : blocks[b].to = c}

\* The client was given piece n of channel c.
Shown(c, n) == \E b \in BlocksOf(c) : \E i \in DOMAIN blocks[b].got : blocks[b].got[i] = n

\* The channels a dialect translates.
Translated == IF dialect = "chat" THEN Channels ELSE {Text}

\* An answer that is presented as complete lacks nothing of what the gateway sent
\* on a channel the dialect translates, unless its last line had no newline.
NothingLost ==
  end = "complete" /\ ~dropped => \A c \in Translated : \A n \in 1..sent[c] : Shown(c, n)

\* A tool call is one block, so that its arguments can be joined to one JSON text,
\* and at most one block of text is open.
OneBlockPerCall ==
  \A a, b \in DOMAIN blocks :
    a # b /\ blocks[a].to = blocks[b].to =>
      blocks[a].to = Text /\ ~(blocks[a].open /\ blocks[b].open)

Client == INSTANCE MessageStream WITH Pieces <- 1..MaxLines

(***************************************************************************)
(* Whatever is interleaved, fails or is cut: no block starts inside a      *)
(* block of text, a tool call is one block, nothing is written into a      *)
(* block that is closed, and an answer that is presented as complete has   *)
(* closed every block and is not continued (openText(), closeText() and    *)
(* toolBlockIndex of stream.js keep three separate accounts of that).      *)
(* MessageStream is not the order of frames at stream.js:5-7: OneOpenBlock *)
(* says what it leaves out.                                                *)
(***************************************************************************)
ClientReadsAStream == Client!Spec

(***************************************************************************)
(* Every block is stopped before the next one starts, "content_block_start *)
(* -> content_block_delta* -> content_block_stop" (stream.js:5-7).  The    *)
(* code does not keep it: a tool call stays open until the end of the      *)
(* stream, while text and further calls are started beside it              *)
(* (StreamOrder.cfg has a trace).                                          *)
(***************************************************************************)
OneOpenBlock ==
  \A a, b \in DOMAIN blocks : blocks[a].open /\ blocks[b].open => a = b
=============================================================================
