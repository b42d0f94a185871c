---------------------------- MODULE MessageStream ----------------------------
(***************************************************************************)
(* What a client of the Messages API may rely on when it reads a streamed  *)
(* answer: the text is written in blocks that are closed before any other  *)
(* block starts, a tool call is one block, pieces go to a block that is    *)
(* open, and a stream that is completed has no block open and says nothing *)
(* more.  Blocks of several tool calls may be open together, and a stream  *)
(* that fails may leave blocks open.                                       *)
(***************************************************************************)
EXTENDS Naturals, Sequences

CONSTANTS
  Text,       \* the channel of the text
  Channels,   \* the text and the tool calls of the answer
  Pieces      \* what a block can be extended with

VARIABLES
  blocks,   \* per started block: its channel, whether it is open, its pieces
  end       \* "none" before the first frame, "open", then how the stream ended

Init == blocks = <<>> /\ end = "none"

\* The answer is an HTTP error, not a stream.
Refuse == end = "none" /\ end' = "refused" /\ UNCHANGED blocks

Begin == end = "none" /\ end' = "open" /\ UNCHANGED blocks

BlocksOf(c) == {b \in DOMAIN blocks : blocks[b].to = c}

StartBlock(c) ==
  /\ end \in {"none", "open"}
  /\ \A b \in BlocksOf(Text) : ~blocks[b].open
  /\ c # Text => BlocksOf(c) = {}
  /\ blocks' = Append(blocks, [to |-> c, open |-> TRUE, got |-> <<>>])
  /\ end' = "open"

SendPiece(b, piece) ==
  /\ end = "open"
  /\ blocks[b].open
  /\ blocks' = [blocks EXCEPT ![b].got = Append(@, piece)]
  /\ UNCHANGED end

StopBlock(b) ==
  /\ end = "open"
  /\ blocks[b].open
  /\ blocks' = [blocks EXCEPT ![b].open = FALSE]
  /\ UNCHANGED end

Complete ==
  /\ end = "open"
  /\ \A b \in DOMAIN blocks : ~blocks[b].open
  /\ end' = "complete"
  /\ UNCHANGED blocks

\* A failed stream may leave blocks open.
Fail ==
  /\ end = "open"
  /\ end' \in {"error", "cut"}
  /\ UNCHANGED blocks

Next ==
  \/ Refuse \/ Begin \/ Complete \/ Fail
  \/ \E c \in Channels : StartBlock(c)
  \/ \E b \in DOMAIN blocks, piece \in Pieces : SendPiece(b, piece)
  \/ \E b \in DOMAIN blocks : StopBlock(b)

Spec == Init /\ [][Next]_<<blocks, end>>
=============================================================================
