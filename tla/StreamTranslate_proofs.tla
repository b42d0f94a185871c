----------------------- MODULE StreamTranslate_proofs -----------------------
(***************************************************************************)
(* Proofs about the translation of a stream, for every number of tool      *)
(* calls, lines and pieces.                                                *)
(***************************************************************************)
EXTENDS StreamTranslate, TLAPS, SequenceTheorems

-----------------------------------------------------------------------------
(***************************************************************************)
(* The inductive invariant: what the translator remembers of the blocks is *)
(* what the client was told of them, and what is still to be sent of the   *)
(* last line is newer than anything the client was given.                  *)
(***************************************************************************)

TextIsTracked ==
  /\ textOpen => /\ textIndex + 1 \in BlocksOf(Text)
                 /\ blocks[textIndex + 1].open
  /\ \A b \in BlocksOf(Text) : textOpen => b <= textIndex + 1
  /\ \A b \in BlocksOf(Text) : blocks[b].open => textOpen /\ b = textIndex + 1

ToolsAreTracked ==
  /\ \A i \in Tools : toolBlock[i] # None =>
       /\ toolBlock[i] + 1 \in BlocksOf(i)
       /\ phase \in {"fetch", "reading"} => blocks[toolBlock[i] + 1].open
  /\ \A i \in Tools : \A b \in BlocksOf(i) : toolBlock[i] = b - 1

EndFollowsPhase ==
  /\ phase = "fetch" <=> end = "none"
  /\ phase \in {"reading", "failing", "closing"} => end = "open"
  /\ phase = "fetch" => blocks = <<>> /\ ~textOpen /\ textIndex = 0
  /\ phase # "reading" => todo = <<>>
  /\ phase \in {"fetch", "reading"} => ~dropped
  /\ end = "complete" => phase = "ended"

SentIsBounded == \A c \in Channels : sent[c] <= lines

TodoIsNew ==
  /\ \A j, k \in DOMAIN todo : todo[j].to = todo[k].to => j = k
  /\ \A k \in DOMAIN todo :
       /\ todo[k].to = Text => todo[k].piece # 0
       /\ todo[k].piece # 0 =>
            /\ todo[k].piece = sent[todo[k].to]
            /\ \A n \in Nat : Shown(todo[k].to, n) => n < todo[k].piece

Awaited(c, n) == \E k \in DOMAIN todo : todo[k].to = c /\ todo[k].piece = n

NothingForgotten ==
  ~dropped => \A c \in Translated : \A n \in 1..sent[c] : Shown(c, n) \/ Awaited(c, n)

StreamInv ==
  /\ TypeOK
  /\ TextIsTracked
  /\ ToolsAreTracked
  /\ EndFollowsPhase
  /\ SentIsBounded
  /\ TodoIsNew
  /\ PiecesInOrder
  /\ NothingForgotten

-----------------------------------------------------------------------------
\* What the three frames do to the blocks.

LEMMA FunctionIsSeq ==
  ASSUME NEW S, NEW m \in Nat, NEW f \in [1..m -> S]
  PROVE  f \in Seq(S)
OBVIOUS

LEMMA BlocksTyped ==
  ASSUME TypeOK
  PROVE  /\ DOMAIN blocks = 1..nextBlock
         /\ nextBlock \in Nat
         /\ \A b \in DOMAIN blocks : blocks[b] \in Block /\ blocks[b].to \in Channels
<1>1. blocks \in Seq(Block) /\ nextBlock = Len(blocks)
  BY DEF TypeOK
<1>2. nextBlock \in Nat /\ DOMAIN blocks = 1..nextBlock
  BY <1>1, LenProperties
<1>3. \A b \in 1..nextBlock : blocks[b] \in Block
  BY <1>1, ElementOfSeq
<1> QED BY <1>2, <1>3 DEF Block

LEMMA TodoTyped ==
  ASSUME TypeOK
  PROVE  /\ DOMAIN todo = 1..Len(todo)
         /\ \A k \in DOMAIN todo : todo[k] \in Op /\ todo[k].to \in Channels /\ todo[k].piece \in Nat
<1>1. todo \in Seq(Op)
  BY DEF TypeOK
<1>2. DOMAIN todo = 1..Len(todo)
  BY <1>1, LenProperties
<1>3. \A k \in 1..Len(todo) : todo[k] \in Op
  BY <1>1, ElementOfSeq
<1> QED BY <1>2, <1>3 DEF Op

LEMMA Started ==
  ASSUME TypeOK, NEW c \in Channels, StartBlock(c)
  PROVE  /\ blocks' \in Seq(Block)
         /\ nextBlock' = Len(blocks')
         /\ DOMAIN blocks = 1..nextBlock
         /\ DOMAIN blocks' = 1..nextBlock + 1
         /\ nextBlock \in Nat
         /\ \A b \in 1..nextBlock : blocks'[b] = blocks[b]
         /\ blocks'[nextBlock + 1] = [to |-> c, open |-> TRUE, got |-> <<>>]
<1> DEFINE new == [to |-> c, open |-> TRUE, got |-> <<>>]
<1>1. new \in Block
  BY EmptySeq DEF Block
<1>2. blocks \in Seq(Block) /\ nextBlock = Len(blocks) /\ nextBlock \in Nat
  BY LenProperties DEF TypeOK
<1>3. blocks' = Append(blocks, new) /\ nextBlock' = nextBlock + 1
  BY DEF StartBlock, NextIndex
<1> HIDE DEF new
<1>4. /\ blocks' \in Seq(Block)
      /\ Len(blocks') = Len(blocks) + 1
      /\ \A b \in 1..Len(blocks) : blocks'[b] = blocks[b]
      /\ blocks'[Len(blocks) + 1] = new
  BY <1>1, <1>2, <1>3, AppendProperties
<1>5. DOMAIN blocks = 1..Len(blocks) /\ DOMAIN blocks' = 1..Len(blocks')
  BY <1>2, <1>4, LenProperties
<1> QED BY <1>2, <1>3, <1>4, <1>5 DEF new

LEMMA Extended ==
  ASSUME TypeOK, NEW index \in Nat, NEW piece \in Nat, index + 1 \in DOMAIN blocks,
         SendPiece(index, piece)
  PROVE  /\ blocks' \in Seq(Block)
         /\ Len(blocks') = Len(blocks)
         /\ DOMAIN blocks' = DOMAIN blocks
         /\ \A b \in DOMAIN blocks : /\ blocks'[b].to = blocks[b].to
                                     /\ blocks'[b].open = blocks[b].open
                                     /\ b # index + 1 => blocks'[b].got = blocks[b].got
         /\ Len(blocks[index + 1].got) \in Nat
         /\ DOMAIN blocks[index + 1].got = 1..Len(blocks[index + 1].got)
         /\ DOMAIN blocks'[index + 1].got = 1..(Len(blocks[index + 1].got) + 1)
         /\ \A i \in DOMAIN blocks[index + 1].got :
              blocks'[index + 1].got[i] = blocks[index + 1].got[i]
         /\ blocks'[index + 1].got[Len(blocks[index + 1].got) + 1] = piece
<1> DEFINE b == index + 1
           more == [blocks[b] EXCEPT !.got = Append(@, piece)]
<1>1. blocks \in Seq(Block) /\ DOMAIN blocks = 1..Len(blocks)
  BY LenProperties DEF TypeOK
<1>2. blocks[b] \in Block
  BY <1>1, ElementOfSeq
<1>9. blocks[b].got \in Seq(Nat)
  BY <1>2 DEF Block
<1>3. /\ Append(blocks[b].got, piece) \in Seq(Nat)
      /\ Len(Append(blocks[b].got, piece)) = Len(blocks[b].got) + 1
      /\ \A i \in 1..Len(blocks[b].got) : Append(blocks[b].got, piece)[i] = blocks[b].got[i]
      /\ Append(blocks[b].got, piece)[Len(blocks[b].got) + 1] = piece
  BY <1>9, AppendProperties
<1>4. /\ more \in Block
      /\ more.to = blocks[b].to
      /\ more.open = blocks[b].open
      /\ more.got = Append(blocks[b].got, piece)
  BY <1>2, <1>3 DEF Block
<1>5. blocks' = [blocks EXCEPT ![b] = more]
  BY <1>1 DEF SendPiece
<1> HIDE DEF more
<1>6. /\ blocks' \in Seq(Block)
      /\ Len(blocks') = Len(blocks)
      /\ \A a \in 1..Len(blocks) : blocks'[a] = IF a = b THEN more ELSE blocks[a]
  BY <1>1, <1>4, <1>5, ExceptSeq
<1>7. DOMAIN blocks' = DOMAIN blocks
  BY <1>1, <1>6, LenProperties
<1>8. /\ DOMAIN blocks[b].got = 1..Len(blocks[b].got)
      /\ Len(blocks[b].got) \in Nat
      /\ DOMAIN more.got = 1..(Len(blocks[b].got) + 1)
  BY <1>9, <1>3, <1>4, LenProperties
<1> QED BY <1>1, <1>3, <1>4, <1>6, <1>7, <1>8

LEMMA Stopped ==
  ASSUME TypeOK, NEW index \in Nat, index + 1 \in DOMAIN blocks, StopBlock(index)
  PROVE  /\ blocks' \in Seq(Block)
         /\ Len(blocks') = Len(blocks)
         /\ DOMAIN blocks' = DOMAIN blocks
         /\ \A b \in DOMAIN blocks : /\ blocks'[b].to = blocks[b].to
                                     /\ blocks'[b].open = (blocks[b].open /\ b # index + 1)
                                     /\ blocks'[b].got = blocks[b].got
<1> DEFINE b == index + 1
           less == [blocks[b] EXCEPT !.open = FALSE]
<1>1. blocks \in Seq(Block) /\ DOMAIN blocks = 1..Len(blocks)
  BY LenProperties DEF TypeOK
<1>2. \A a \in 1..Len(blocks) : blocks[a] \in Block
  BY <1>1, ElementOfSeq
<1>3. /\ less \in Block
      /\ less.to = blocks[b].to
      /\ ~less.open
      /\ less.got = blocks[b].got
  BY <1>1, <1>2 DEF Block
<1>4. blocks' = [blocks EXCEPT ![b] = less]
  BY <1>1 DEF StopBlock
<1> HIDE DEF less
<1>5. /\ blocks' \in Seq(Block)
      /\ Len(blocks') = Len(blocks)
      /\ \A a \in 1..Len(blocks) : blocks'[a] = IF a = b THEN less ELSE blocks[a]
  BY <1>1, <1>3, <1>4, ExceptSeq
<1>6. DOMAIN blocks' = DOMAIN blocks
  BY <1>1, <1>5, LenProperties
<1>7. \A a \in 1..Len(blocks) : blocks[a].open \in BOOLEAN /\ less.open = FALSE
  BY <1>2, <1>3 DEF Block
<1> QED BY <1>1, <1>3, <1>5, <1>6, <1>7

-----------------------------------------------------------------------------
\* What the three frames do to the pieces that were shown.

LEMMA StartShowsNothing ==
  ASSUME TypeOK, NEW c \in Channels, StartBlock(c), UNCHANGED sent
  PROVE  /\ \A d \in Channels, n \in Nat : Shown(d, n)' <=> Shown(d, n)
         /\ PiecesInOrder => PiecesInOrder'
<1>1. /\ DOMAIN blocks = 1..nextBlock
      /\ DOMAIN blocks' = 1..nextBlock + 1
      /\ nextBlock \in Nat
      /\ \A b \in 1..nextBlock : blocks'[b] = blocks[b]
      /\ blocks'[nextBlock + 1] = [to |-> c, open |-> TRUE, got |-> <<>>]
  BY Started
<1>2. DOMAIN blocks'[nextBlock + 1].got = {}
  BY <1>1
<1>3. \A b \in DOMAIN blocks' : DOMAIN blocks'[b].got # {} => b \in DOMAIN blocks /\ blocks'[b] = blocks[b]
  BY <1>1, <1>2
<1>4. \A d \in Channels, n \in Nat : Shown(d, n)' <=> Shown(d, n)
  BY <1>1, <1>3 DEF Shown, BlocksOf
<1>5. PiecesInOrder => PiecesInOrder'
  BY <1>1, <1>3 DEF PiecesInOrder
<1> QED BY <1>4, <1>5

LEMMA StopShowsNothing ==
  ASSUME TypeOK, NEW index \in Nat, index + 1 \in DOMAIN blocks, StopBlock(index), UNCHANGED sent
  PROVE  /\ \A d \in Channels, n \in Nat : Shown(d, n)' <=> Shown(d, n)
         /\ PiecesInOrder => PiecesInOrder'
<1>1. /\ DOMAIN blocks' = DOMAIN blocks
      /\ \A b \in DOMAIN blocks : /\ blocks'[b].to = blocks[b].to
                                  /\ blocks'[b].got = blocks[b].got
  BY Stopped
<1>2. \A d \in Channels, n \in Nat : Shown(d, n)' <=> Shown(d, n)
  BY <1>1 DEF Shown, BlocksOf
<1>3. PiecesInOrder => PiecesInOrder'
  BY <1>1 DEF PiecesInOrder
<1> QED BY <1>2, <1>3

\* A piece that is newer than all of its channel may go to the channel's last block.
LEMMA ExtensionShows ==
  ASSUME TypeOK, PiecesInOrder, UNCHANGED sent,
         NEW index \in Nat, NEW piece \in Nat, NEW c \in Channels,
         index + 1 \in BlocksOf(c), SendPiece(index, piece),
         \A b \in BlocksOf(c) : b <= index + 1,
         piece \in 1..sent[c],
         \A n \in Nat : Shown(c, n) => n < piece
  PROVE  /\ \A d \in Channels, n \in Nat : Shown(d, n)' <=> (Shown(d, n) \/ (d = c /\ n = piece))
         /\ PiecesInOrder'
<1> DEFINE last == index + 1
           new == Len(blocks[last].got) + 1
<1>1. last \in DOMAIN blocks /\ blocks[last].to = c
  BY DEF BlocksOf
<1>2. /\ DOMAIN blocks' = DOMAIN blocks
      /\ \A b \in DOMAIN blocks : blocks'[b].to = blocks[b].to
      /\ \A b \in DOMAIN blocks : b # last => blocks'[b].got = blocks[b].got
      /\ new \in Nat
      /\ DOMAIN blocks[last].got = 1..(new - 1)
      /\ DOMAIN blocks'[last].got = 1..new
      /\ \A i \in 1..(new - 1) : blocks'[last].got[i] = blocks[last].got[i]
      /\ blocks'[last].got[new] = piece
  BY <1>1, Extended
<1>3. new \notin 1..(new - 1) /\ 1..new = (1..(new - 1)) \cup {new} /\ \A i \in 1..(new - 1) : i < new
  BY <1>2
<1>4. DOMAIN blocks \subseteq Nat
  BY LenProperties DEF TypeOK
<1> HIDE DEF last, new
<1>5. \A b \in DOMAIN blocks : \A i : i \in DOMAIN blocks'[b].got =>
        \/ i \in DOMAIN blocks[b].got /\ blocks'[b].got[i] = blocks[b].got[i] /\ (b = last => i < new)
        \/ b = last /\ i = new /\ blocks'[b].got[i] = piece
  BY <1>1, <1>2, <1>3
<1>6. \A b \in DOMAIN blocks : \A i : i \in DOMAIN blocks[b].got =>
        i \in DOMAIN blocks'[b].got /\ blocks'[b].got[i] = blocks[b].got[i]
  BY <1>1, <1>2, <1>3
<1>7. ASSUME NEW d \in Channels, NEW n \in Nat
      PROVE  Shown(d, n)' <=> (Shown(d, n) \/ (d = c /\ n = piece))
  <2>1. Shown(d, n)' => (Shown(d, n) \/ (d = c /\ n = piece))
    BY <1>1, <1>2, <1>5 DEF Shown, BlocksOf
  <2>2. Shown(d, n) => Shown(d, n)'
    BY <1>2, <1>6 DEF Shown, BlocksOf
  <2>3. new \in DOMAIN blocks'[last].got
    BY <1>2, <1>3
  <2>4. d = c /\ n = piece => Shown(d, n)'
    BY <1>1, <1>2, <2>3 DEF Shown, BlocksOf
  <2> QED BY <2>1, <2>2, <2>4
<1>8. \A a \in DOMAIN blocks : \A i \in DOMAIN blocks[a].got :
        /\ blocks[a].got[i] \in Nat
        /\ blocks[a].to = c => a <= last /\ blocks[a].got[i] < piece
  <2> SUFFICES ASSUME NEW a \in DOMAIN blocks, NEW i \in DOMAIN blocks[a].got
               PROVE  /\ blocks[a].got[i] \in Nat
                      /\ blocks[a].to = c => a <= last /\ blocks[a].got[i] < piece
    OBVIOUS
  <2>1. blocks[a].got[i] \in 1..sent[blocks[a].to]
    BY DEF PiecesInOrder
  <2>2. blocks[a].to \in Channels
    BY BlocksTyped
  <2>3. blocks[a].got[i] \in Nat
    BY <2>1, <2>2 DEF TypeOK
  <2>4. blocks[a].to = c => Shown(c, blocks[a].got[i])
    BY DEF Shown, BlocksOf
  <2>5. blocks[a].to = c => a <= last
    BY DEF BlocksOf, last
  <2> QED BY <2>3, <2>4, <2>5
<1>9. PiecesInOrder'
  <2> SUFFICES ASSUME NEW a \in DOMAIN blocks, NEW b \in DOMAIN blocks,
                      NEW i \in DOMAIN blocks'[a].got, NEW j \in DOMAIN blocks'[b].got
               PROVE  /\ blocks'[a].got[i] \in 1..sent[blocks[a].to]
                      /\ blocks[a].to = blocks[b].to /\ (a < b \/ (a = b /\ i < j)) =>
                           blocks'[a].got[i] < blocks'[b].got[j]
    BY <1>2 DEF PiecesInOrder
  <2>1. CASE a = last /\ i = new
    <3>1. ~(a < b /\ blocks[b].to = c)
      BY <1>1, <1>4, <2>1 DEF BlocksOf, last
    <3>2. ~(a = b /\ i < j)
      BY <1>1, <1>2, <1>3, <2>1
    <3> QED BY <1>1, <1>2, <2>1, <3>1, <3>2
  <2>2. CASE ~(a = last /\ i = new)
    <3>1. i \in DOMAIN blocks[a].got /\ blocks'[a].got[i] = blocks[a].got[i]
      BY <1>5, <2>2
    <3>2. blocks[a].got[i] \in 1..sent[blocks[a].to]
      BY <3>1 DEF PiecesInOrder
    <3>3. CASE b = last /\ j = new
      BY <1>1, <1>2, <1>8, <3>1, <3>2, <3>3
    <3>4. CASE ~(b = last /\ j = new)
      <4>1. j \in DOMAIN blocks[b].got /\ blocks'[b].got[j] = blocks[b].got[j]
        BY <1>5, <3>4
      <4> QED BY <3>1, <4>1 DEF PiecesInOrder
    <3> QED BY <3>3, <3>4
  <2> QED BY <2>1, <2>2
<1> QED BY <1>7, <1>9

-----------------------------------------------------------------------------
\* The steps.

LEMMA InitInv == Init => StreamInv
<1> SUFFICES ASSUME Init PROVE StreamInv
  OBVIOUS
<1>1. TypeOK
  <2>1. <<>> \in Seq(Op) /\ <<>> \in Seq(Block) /\ Len(<<>>) = 0
    BY EmptySeq
  <2>2. toolBlock \in [Tools -> Nat \cup {None}] /\ sent \in [Channels -> Nat]
    BY DEF Init
  <2>3. lines \in 0..MaxLines
    BY BoundsAssumption DEF Init
  <2> QED BY <2>1, <2>2, <2>3 DEF Init, TypeOK, Phases
<1>2. DOMAIN blocks = {} /\ DOMAIN todo = {}
  BY DEF Init
<1>3. TextIsTracked /\ ToolsAreTracked /\ PiecesInOrder /\ TodoIsNew
  BY <1>2 DEF Init, TextIsTracked, ToolsAreTracked, BlocksOf, PiecesInOrder, TodoIsNew
<1>4. EndFollowsPhase /\ SentIsBounded
  BY DEF Init, EndFollowsPhase, SentIsBounded
<1>5. NothingForgotten
  <2>1. \A c \in Channels : 1..sent[c] = {}
    BY DEF Init
  <2> QED BY <2>1 DEF NothingForgotten, Translated, Channels
<1> QED BY <1>1, <1>3, <1>4, <1>5 DEF StreamInv

\* A step that only moves the phase: nothing was read, and nothing is to be sent.
LEMMA PhaseMoves ==
  ASSUME StreamInv, todo = <<>>,
         UNCHANGED <<dialect, lines, todo, textOpen, textIndex, nextBlock, toolBlock, sent, dropped, blocks>>,
         phase' \in Phases \ {"fetch", "reading"},
         end' \in {"open", "complete", "error", "cut", "refused"},
         phase' # "ended" => end' = "open"
  PROVE  StreamInv'
<1> USE DEF StreamInv
<1>1. TypeOK'
  BY DEF TypeOK, Phases
<1>2. TextIsTracked'
  BY DEF TextIsTracked, BlocksOf
<1>3. ToolsAreTracked'
  BY DEF ToolsAreTracked, BlocksOf
<1>4. EndFollowsPhase'
  BY DEF EndFollowsPhase, Phases
<1>5. SentIsBounded' /\ TodoIsNew' /\ PiecesInOrder'
  BY DEF SentIsBounded, TodoIsNew, PiecesInOrder, Shown, BlocksOf
<1>6. NothingForgotten'
  BY DEF NothingForgotten, Translated, Shown, Awaited, BlocksOf
<1> QED BY <1>1, <1>2, <1>3, <1>4, <1>5, <1>6

\* What a step that shows nothing new and reads nothing keeps.
LEMMA ShowsNothing ==
  ASSUME StreamInv, UNCHANGED <<dialect, lines, todo, sent, dropped>>,
         \A d \in Channels, n \in Nat : Shown(d, n)' <=> Shown(d, n)
  PROVE  SentIsBounded' /\ TodoIsNew' /\ NothingForgotten'
<1> USE DEF StreamInv
<1>1. SentIsBounded'
  BY DEF SentIsBounded
<1>2. \A k \in DOMAIN todo : todo[k].to \in Channels
  BY TodoTyped
<1>3. TodoIsNew'
  BY <1>2 DEF TodoIsNew
<1>4. \A c \in Channels : \A n \in 1..sent[c] : n \in Nat
  BY DEF TypeOK
<1>5. Translated \subseteq Channels
  BY DEF Translated, Channels
<1>6. NothingForgotten'
  BY <1>4, <1>5 DEF NothingForgotten, Translated, Awaited
<1> QED BY <1>1, <1>3, <1>6

LEMMA StartInv ==
  ASSUME StreamInv, NEW c \in Channels, StartBlock(c),
         UNCHANGED <<dialect, lines, todo, sent, dropped>>,
         phase' = "reading", end' = "open", phase = "reading" \/ todo = <<>>, ~dropped,
         ~textOpen,
         \/ /\ c = Text
            /\ textOpen' = TRUE
            /\ textIndex' = nextBlock
            /\ toolBlock' = toolBlock
            /\ phase = "reading" \/ nextBlock = 0
         \/ /\ c \in Tools /\ toolBlock[c] = None
            /\ toolBlock' = [toolBlock EXCEPT ![c] = nextBlock]
            /\ UNCHANGED <<textOpen, textIndex>>
            /\ phase = "reading"
  PROVE  StreamInv'
<1> USE DEF StreamInv
<1>1. /\ blocks' \in Seq(Block)
      /\ nextBlock' = Len(blocks')
      /\ DOMAIN blocks = 1..nextBlock
      /\ DOMAIN blocks' = 1..nextBlock + 1
      /\ nextBlock \in Nat
      /\ \A b \in 1..nextBlock : blocks'[b] = blocks[b]
      /\ blocks'[nextBlock + 1] = [to |-> c, open |-> TRUE, got |-> <<>>]
  BY Started
<1>2. \A b \in DOMAIN blocks' : \/ b \in DOMAIN blocks /\ blocks'[b] = blocks[b] /\ b < nextBlock + 1
                                \/ b = nextBlock + 1
  BY <1>1
<1>3. \A d \in Channels : \A b : b \in BlocksOf(d)' <=> (b \in BlocksOf(d) \/ (d = c /\ b = nextBlock + 1))
  BY <1>1 DEF BlocksOf
<1>4. \A d \in Channels : \A b \in BlocksOf(d) :
        /\ b \in 1..nextBlock /\ blocks'[b] = blocks[b]
        /\ (blocks[b].to)' = blocks[b].to
  BY <1>1 DEF BlocksOf
<1>5. TypeOK'
  BY <1>1 DEF TypeOK, Phases
<1>6. TextIsTracked'
  <2>1. Text \in Channels
    BY DEF Channels
  <2>2. CASE c = Text
    BY <1>1, <1>3, <1>4, <2>1, <2>2, TextAssumption DEF TextIsTracked, TypeOK
  <2>3. CASE c # Text
    BY <1>3, <1>4, <2>1, <2>3 DEF TextIsTracked
  <2> QED BY <2>2, <2>3
<1>7. ToolsAreTracked'
  <2>1. \A i \in Tools : i \in Channels /\ i # Text
    BY TextAssumption DEF Channels
  <2>2. CASE c = Text
    BY <1>3, <1>4, <2>1, <2>2, TextAssumption DEF ToolsAreTracked, EndFollowsPhase, BlocksOf
  <2>3. CASE c # Text
    <3>1. c \in Tools /\ toolBlock' = [toolBlock EXCEPT ![c] = nextBlock] /\ phase = "reading"
      BY <2>3
    <3>2. toolBlock'[c] = nextBlock /\ \A i \in Tools \ {c} : toolBlock'[i] = toolBlock[i]
      BY <3>1 DEF TypeOK
    <3>3. ~\E b \in BlocksOf(c) : TRUE
      BY <1>1, <2>3, <3>1, NoneAssumption DEF ToolsAreTracked, BlocksOf
    <3> QED BY <1>1, <1>3, <1>4, <2>1, <3>1, <3>2, <3>3 DEF ToolsAreTracked
  <2> QED BY <2>2, <2>3
<1>8. EndFollowsPhase'
  BY DEF EndFollowsPhase
<1>9. PiecesInOrder' /\ \A d \in Channels, n \in Nat : Shown(d, n)' <=> Shown(d, n)
  BY StartShowsNothing
<1>10. SentIsBounded' /\ TodoIsNew' /\ NothingForgotten'
  BY <1>9, ShowsNothing
<1> QED BY <1>5, <1>6, <1>7, <1>8, <1>9, <1>10

LEMMA StopInv ==
  ASSUME StreamInv, NEW index \in Nat, NEW c \in Channels, index + 1 \in BlocksOf(c),
         StopBlock(index), UNCHANGED <<dialect, phase, lines, todo, textIndex, nextBlock, toolBlock, sent, dropped, end>>,
         phase # "fetch",
         \/ c = Text /\ index = textIndex /\ textOpen' = FALSE
         \/ c \in Tools /\ phase = "closing" /\ UNCHANGED textOpen
  PROVE  StreamInv'
<1> USE DEF StreamInv
<1>1. index + 1 \in DOMAIN blocks /\ blocks[index + 1].to = c
  BY DEF BlocksOf
<1>2. /\ blocks' \in Seq(Block)
      /\ Len(blocks') = Len(blocks)
      /\ DOMAIN blocks' = DOMAIN blocks
      /\ \A b \in DOMAIN blocks : /\ blocks'[b].to = blocks[b].to
                                  /\ blocks'[b].open = (blocks[b].open /\ b # index + 1)
                                  /\ blocks'[b].got = blocks[b].got
  BY <1>1, Stopped
<1>3. \A d \in Channels : BlocksOf(d)' = BlocksOf(d)
  BY <1>2 DEF BlocksOf
<1>4. \A d \in Channels : \A b \in BlocksOf(d) :
        blocks'[b].open <=> (blocks[b].open /\ b # index + 1)
  BY <1>2 DEF BlocksOf
<1>5. \A d \in Channels : index + 1 \in BlocksOf(d) => d = c
  BY <1>1 DEF BlocksOf
<1>6. TypeOK'
  BY <1>2 DEF TypeOK
<1>7. TextIsTracked'
  <2>1. Text \in Channels
    BY DEF Channels
  <2>2. CASE c = Text
    BY <1>3, <1>4, <2>1, <2>2, TextAssumption DEF TextIsTracked
  <2>3. CASE c # Text
    BY <1>3, <1>4, <1>5, <2>1, <2>3 DEF TextIsTracked
  <2> QED BY <2>2, <2>3
<1>8. ToolsAreTracked'
  <2>1. \A i \in Tools : i \in Channels /\ i # Text
    BY TextAssumption DEF Channels
  <2> QED BY <1>3, <1>4, <1>5, <2>1 DEF ToolsAreTracked
<1>9. EndFollowsPhase'
  BY <1>1 DEF EndFollowsPhase
<1>10. PiecesInOrder' /\ \A d \in Channels, n \in Nat : Shown(d, n)' <=> Shown(d, n)
  BY <1>1, StopShowsNothing
<1>11. SentIsBounded' /\ TodoIsNew' /\ NothingForgotten'
  BY <1>10, ShowsNothing
<1> QED BY <1>6, <1>7, <1>8, <1>9, <1>10, <1>11

\* One piece is sent: the first of what is to be sent, to the last block of its channel.
LEMMA SendInv ==
  ASSUME StreamInv, phase = "reading", todo # <<>>, todo' = Tail(todo),
         UNCHANGED <<dialect, phase, lines, textOpen, textIndex, nextBlock, toolBlock, sent, dropped, end>>,
         NEW index \in Nat, index + 1 \in BlocksOf(op.to),
         \A b \in BlocksOf(op.to) : b <= index + 1,
         IF op.piece = 0 THEN UNCHANGED blocks ELSE SendPiece(index, op.piece)
  PROVE  StreamInv'
<1> USE DEF StreamInv
<1>1. /\ todo' \in Seq(Op)
      /\ Len(todo') = Len(todo) - 1
      /\ DOMAIN todo = 1..Len(todo)
      /\ DOMAIN todo' = 1..(Len(todo) - 1)
      /\ Len(todo) \in Nat \ {0}
      /\ \A k \in 1..(Len(todo) - 1) : todo'[k] = todo[k + 1]
      /\ op = todo[1]
  <2>1. todo \in Seq(Op) /\ todo # <<>>
    BY DEF TypeOK
  <2>2. Len(todo) \in Nat \ {0} /\ DOMAIN todo = 1..Len(todo)
    BY <2>1, EmptySeq, LenProperties
  <2>3. /\ todo' \in Seq(Op)
        /\ Len(todo') = Len(todo) - 1
        /\ \A k \in 1..Len(todo') : todo'[k] = todo[k + 1]
    BY <2>1, HeadTailProperties
  <2>4. DOMAIN todo' = 1..Len(todo')
    BY <2>3, LenProperties
  <2> QED BY <2>1, <2>2, <2>3, <2>4 DEF op
<1>2. op.to \in Channels /\ op.piece \in Nat /\ 1 \in DOMAIN todo
  BY <1>1, TodoTyped
<1>3. \A k \in DOMAIN todo : todo[k].to \in Channels /\ todo[k].piece \in Nat
  BY TodoTyped
<1>4. \A c \in Channels : sent[c] \in Nat
  BY DEF TypeOK
<1>5. \A k \in DOMAIN todo' : /\ k + 1 \in DOMAIN todo
                              /\ k + 1 # 1
                              /\ todo'[k] = todo[k + 1]
                              /\ todo'[k].to # op.to
  BY <1>1, <1>2 DEF TodoIsNew
<1>6. \A k \in DOMAIN todo : k # 1 => k - 1 \in DOMAIN todo' /\ todo'[k - 1] = todo[k]
  BY <1>1
<1>7. op.piece # 0 => /\ op.piece = sent[op.to]
                      /\ op.piece \in 1..sent[op.to]
                      /\ \A n \in Nat : Shown(op.to, n) => n < op.piece
  BY <1>1, <1>2, <1>4 DEF TodoIsNew
<1>8. /\ \A d \in Channels, n \in Nat :
           Shown(d, n)' <=> (Shown(d, n) \/ (op.piece # 0 /\ d = op.to /\ n = op.piece))
      /\ PiecesInOrder'
  <2>1. CASE op.piece = 0
    BY <2>1 DEF PiecesInOrder, Shown, BlocksOf
  <2>2. CASE op.piece # 0
    BY <1>2, <1>7, <2>2, ExtensionShows
  <2> QED BY <2>1, <2>2
<1>9. /\ blocks' \in Seq(Block)
      /\ Len(blocks') = Len(blocks)
      /\ DOMAIN blocks' = DOMAIN blocks
      /\ \A b \in DOMAIN blocks : blocks'[b].to = blocks[b].to /\ blocks'[b].open = blocks[b].open
  <2>1. index + 1 \in DOMAIN blocks
    BY DEF BlocksOf
  <2>2. CASE op.piece = 0
    BY <2>2 DEF TypeOK
  <2>3. CASE op.piece # 0
    BY <1>2, <2>1, <2>3, Extended
  <2> QED BY <2>2, <2>3
<1>10. \A d \in Channels : BlocksOf(d)' = BlocksOf(d) /\ BlocksOf(d) \subseteq DOMAIN blocks
  BY <1>9 DEF BlocksOf
<1>11. Text \in Channels /\ \A i \in Tools : i \in Channels
  BY DEF Channels
<1>12. TypeOK'
  BY <1>1, <1>9 DEF TypeOK
<1>13. TextIsTracked'
  BY <1>9, <1>10, <1>11 DEF TextIsTracked
<1>14. ToolsAreTracked'
  BY <1>9, <1>10, <1>11 DEF ToolsAreTracked
<1>15. EndFollowsPhase' /\ SentIsBounded'
  BY DEF EndFollowsPhase, SentIsBounded
<1>16. TodoIsNew'
  <2>1. \A j, k \in DOMAIN todo' : todo'[j].to = todo'[k].to => j = k
    <3> SUFFICES ASSUME NEW j \in DOMAIN todo', NEW k \in DOMAIN todo', todo'[j].to = todo'[k].to
                 PROVE  j = k
      OBVIOUS
    <3>1. j + 1 = k + 1
      BY <1>5 DEF TodoIsNew
    <3>2. j \in Nat /\ k \in Nat
      BY <1>1
    <3> QED BY <3>1, <3>2
  <2>2. ASSUME NEW k \in DOMAIN todo'
        PROVE  (/\ todo[k].to = Text => todo[k].piece # 0
                /\ todo[k].piece # 0 =>
                     /\ todo[k].piece = sent[todo[k].to]
                     /\ \A n \in Nat : Shown(todo[k].to, n) => n < todo[k].piece)'
    BY <1>3, <1>5, <1>8 DEF TodoIsNew
  <2> QED BY <2>1, <2>2 DEF TodoIsNew
<1>17. NothingForgotten'
  <2> SUFFICES ASSUME ~dropped, NEW c \in Translated, NEW n \in 1..sent[c]
               PROVE  Shown(c, n)' \/ Awaited(c, n)'
    BY DEF NothingForgotten, Translated
  <2>1. c \in Channels /\ n \in Nat /\ n # 0
    BY <1>4 DEF Translated, Channels
  <2>2. CASE Shown(c, n)
    BY <1>8, <2>1, <2>2
  <2>3. CASE Awaited(c, n)
    <3>1. PICK k \in DOMAIN todo : todo[k].to = c /\ todo[k].piece = n
      BY <2>3 DEF Awaited
    <3>2. CASE k = 1
      BY <1>1, <1>8, <2>1, <3>1, <3>2
    <3>3. CASE k # 1
      BY <1>6, <3>1, <3>3 DEF Awaited
    <3> QED BY <3>2, <3>3
  <2> QED BY <2>2, <2>3 DEF NothingForgotten
<1> QED BY <1>8, <1>12, <1>13, <1>14, <1>15, <1>16, <1>17

\* A line is read: what was sent and not yet seen is to be shown, or dropped.
LEMMA ReadInv ==
  ASSUME StreamInv, Waiting, lines < MaxLines, lines' = lines + 1,
         NEW l \in Line, sent' = Sent(l), end' = end,
         UNCHANGED <<dialect, textOpen, textIndex, nextBlock, toolBlock, blocks>>,
         \/ todo' = Understood(l) /\ UNCHANGED <<phase, dropped>>
         \/ todo' = todo /\ phase' = "closing" /\ dropped'
  PROVE  StreamInv'
<1> USE DEF StreamInv
<1>1. todo = <<>> /\ phase = "reading" /\ end = "open" /\ ~dropped
  BY DEF Waiting, EndFollowsPhase
<1>2. PICK m \in 0..MaxOps : l \in [1..m -> [to : Channels, piece : BOOLEAN]]
  BY DEF Line
<1>3. /\ \A i, j \in 1..m : l[i].to = l[j].to => i = j
      /\ \A i \in 1..m : l[i].to = Text => l[i].piece
      /\ \A i \in 1..m : l[i].to \in Channels
      /\ dialect = "responses" => m <= 1
      /\ m \in Nat
      /\ DOMAIN l = 1..m
      /\ l # <<>> => m # 0
  <2>1. m \in Nat /\ DOMAIN l = 1..m /\ \A i \in 1..m : l[i].to \in Channels
    BY <1>2, BoundsAssumption
  <2>2. l \in Seq([to : Channels, piece : BOOLEAN])
    BY <1>2, <2>1, FunctionIsSeq
  <2>3. l # <<>> => m # 0
    BY <2>1, <2>2, EmptySeq, LenProperties
  <2> QED BY <2>1, <2>2, <2>3 DEF Line
<1>4. \A c \in Channels : sent[c] \in Nat /\ sent[c] <= lines
  BY DEF TypeOK, SentIsBounded
<1>5. \A c \in Channels : /\ sent'[c] \in {sent[c], sent[c] + 1}
                          /\ sent'[c] = sent[c] + 1 <=> \E i \in 1..m : l[i].to = c /\ l[i].piece
  BY <1>3, <1>4 DEF Sent
<1>6. SentIsBounded'
  BY <1>4, <1>5 DEF SentIsBounded, TypeOK
<1>7. PiecesInOrder' /\ \A c, n : Shown(c, n)' <=> Shown(c, n)
  <2>1. \A b \in DOMAIN blocks : blocks[b].to \in Channels
    BY BlocksTyped
  <2>2. \A c \in Channels : 1..sent[c] \subseteq 1..sent'[c]
    BY <1>4, <1>5
  <2>3. PiecesInOrder'
    BY <2>1, <2>2 DEF PiecesInOrder
  <2> QED BY <2>3 DEF Shown, BlocksOf
<1>8. TextIsTracked' /\ ToolsAreTracked'
  BY <1>1 DEF TextIsTracked, ToolsAreTracked, BlocksOf
<1>9. \A c \in Channels, n \in Nat : Shown(c, n) => n < sent[c] + 1
  BY <1>4 DEF PiecesInOrder, Shown, BlocksOf
<1>10. sent' \in [Channels -> Nat] /\ lines' \in 0..MaxLines
  BY <1>4, BoundsAssumption DEF Sent, TypeOK
<1>11. CASE todo' = Understood(l) /\ UNCHANGED <<phase, dropped>>
  <2> DEFINE ops == [i \in 1..m |-> [to |-> l[i].to, piece |-> IF l[i].piece THEN sent[l[i].to] + 1 ELSE 0]]
             Heard == todo' = ops /\ \A c \in Translated, i \in 1..m : l[i].to = c => i \in DOMAIN todo'
  <2>1. /\ todo' \in {<<>>, ops}
        /\ todo' # ops => dialect = "responses" /\ \A i \in 1..m : l[i].to # Text
    BY <1>3, <1>11 DEF Understood
  <2>2. DOMAIN todo' \subseteq 1..m /\ \A k \in DOMAIN todo' : todo'[k] = ops[k]
    BY <2>1
  <2>3. todo' \in Seq(Op)
    <3>1. ops \in [1..m -> Op]
      BY <1>3, <1>4 DEF Op
    <3>2. ops \in Seq(Op) /\ <<>> \in Seq(Op)
      BY <1>3, <3>1, EmptySeq
    <3> QED BY <2>1, <3>2
  <2>4. TypeOK'
    BY <1>10, <1>11, <2>3 DEF TypeOK
  <2>5. EndFollowsPhase'
    BY <1>1, <1>11 DEF EndFollowsPhase
  <2>6. \A k \in DOMAIN todo' :
          /\ k \in 1..m
          /\ todo'[k].to = l[k].to
          /\ todo'[k].piece = IF l[k].piece THEN sent[l[k].to] + 1 ELSE 0
    <3>1. CASE todo' = <<>>
      BY <3>1
    <3>2. CASE todo' = ops
      BY <3>2
    <3> QED BY <2>1, <3>1, <3>2
  <2>7. TodoIsNew'
    BY <1>3, <1>4, <1>5, <1>7, <1>9, <2>6 DEF TodoIsNew
  <2>8. NothingForgotten'
    <3> SUFFICES ASSUME NEW c \in Translated, NEW n \in 1..sent'[c]
                 PROVE  Shown(c, n) \/ Awaited(c, n)'
      BY <1>7, <1>11 DEF NothingForgotten, Translated
    <3>1. c \in Channels
      BY DEF Translated, Channels
    <3>2. CASE n \in 1..sent[c]
      BY <1>1, <3>2 DEF NothingForgotten, Awaited
    <3>3. CASE n \notin 1..sent[c]
      <4>1. n = sent[c] + 1 /\ sent'[c] = sent[c] + 1
        BY <1>4, <1>5, <3>1, <3>3
      <4>2. PICK i \in 1..m : l[i].to = c /\ l[i].piece
        BY <1>5, <3>1, <4>1
      <4>3. todo' = ops
        BY <2>1, <4>2 DEF Translated
      <4> QED BY <4>1, <4>2, <4>3 DEF Awaited
    <3> QED BY <3>2, <3>3
  <2> QED BY <1>6, <1>7, <1>8, <2>4, <2>5, <2>7, <2>8
<1>12. CASE todo' = todo /\ phase' = "closing" /\ dropped'
  <2>1. TypeOK'
    BY <1>10, <1>12 DEF TypeOK, Phases
  <2>2. EndFollowsPhase'
    BY <1>1, <1>12 DEF EndFollowsPhase
  <2>3. TodoIsNew' /\ NothingForgotten'
    BY <1>1, <1>12 DEF TodoIsNew, NothingForgotten
  <2> QED BY <1>6, <1>7, <1>8, <2>1, <2>2, <2>3
<1> QED BY <1>11, <1>12

LEMMA NextInv == StreamInv /\ [Next]_vars => StreamInv'
<1> SUFFICES ASSUME StreamInv, [Next]_vars PROVE StreamInv'
  OBVIOUS
<1>0. /\ TypeOK
      /\ phase = "fetch" <=> end = "none"
      /\ phase \in {"reading", "failing", "closing"} => end = "open"
      /\ phase = "fetch" => blocks = <<>> /\ ~textOpen /\ textIndex = 0
      /\ phase # "reading" => todo = <<>>
      /\ phase \in {"fetch", "reading"} => ~dropped
  BY DEF StreamInv, EndFollowsPhase
<1>1. CASE FetchFails \/ ReadError \/ GatewayEnds \/ GatewayBreaks \/ SendError \/ Finish
  <2>1. /\ todo = <<>>
        /\ UNCHANGED <<dialect, lines, todo, textOpen, textIndex, nextBlock, toolBlock, sent, dropped, blocks>>
    BY <1>0, <1>1 DEF FetchFails, ReadError, GatewayEnds, GatewayBreaks, SendError, Finish, Waiting
  <2>2. /\ phase' \in {"failing", "closing", "ended"}
        /\ phase' # "ended" => end' = "open"
        /\ end' \in {"open", "complete", "error", "cut", "refused"}
    BY <1>0, <1>1 DEF FetchFails, ReadError, GatewayEnds, GatewayBreaks, SendError, Finish, Waiting
  <2> QED BY <2>1, <2>2, PhaseMoves DEF Phases
<1>2. ASSUME NEW l \in Line, ReadLine(l) \/ GatewayEndsInLine(l) PROVE StreamInv'
  BY <1>0, <1>2, ReadInv DEF ReadLine, GatewayEndsInLine, Waiting
<1>3. CASE Begin
  <2>1. CASE dialect = "responses"
    <3>1. Text \in Channels /\ nextBlock = 0 /\ textIndex = nextBlock
      BY <1>0, <1>3, EmptySeq DEF Begin, Channels, TypeOK
    <3> QED BY <1>0, <1>3, <2>1, <3>1, StartInv DEF Begin
  <2>2. CASE dialect # "responses"
    <3>1. /\ UNCHANGED <<dialect, lines, todo, textOpen, textIndex, nextBlock, toolBlock, sent, dropped, blocks>>
          /\ phase = "fetch" /\ phase' = "reading" /\ end' = "open"
      BY <1>3, <2>2 DEF Begin
    <3>2. TypeOK'
      BY <1>0, <3>1 DEF TypeOK, Phases
    <3>3. TextIsTracked' /\ ToolsAreTracked'
      BY <3>1 DEF StreamInv, TextIsTracked, ToolsAreTracked, BlocksOf
    <3>4. EndFollowsPhase'
      BY <1>0, <3>1 DEF EndFollowsPhase
    <3>5. SentIsBounded' /\ TodoIsNew' /\ PiecesInOrder' /\ NothingForgotten'
      BY <3>1 DEF StreamInv, SentIsBounded, TodoIsNew, PiecesInOrder, NothingForgotten, Translated,
                  Shown, Awaited, BlocksOf
    <3> QED BY <3>2, <3>3, <3>4, <3>5 DEF StreamInv
  <2> QED BY <2>1, <2>2
<1>4. CASE OpenText
  <2>1. Text \in Channels
    BY DEF Channels
  <2> QED BY <1>0, <1>4, <2>1, StartInv DEF OpenText
<1>5. CASE StartTool
  <2>1. op.to \in Tools /\ op.to \in Channels /\ toolBlock[op.to] = None
    BY <1>5 DEF StartTool, IsNew, Channels
  <2>2. end' = "open" /\ phase' = "reading"
    BY <1>0, <1>5 DEF StartTool
  <2> QED BY <1>0, <1>5, <2>1, <2>2, StartInv DEF StartTool
<1>6. CASE SendText
  <2>1. textIndex \in Nat /\ textIndex + 1 \in BlocksOf(Text) /\ \A b \in BlocksOf(Text) : b <= textIndex + 1
    BY <1>0, <1>6 DEF SendText, StreamInv, TextIsTracked, TypeOK
  <2>2. op.piece # 0
    <3>1. op = todo[1] /\ 1 \in DOMAIN todo
      <4>1. todo \in Seq(Op) /\ todo # <<>>
        BY <1>0, <1>6 DEF SendText, TypeOK
      <4> QED BY <4>1, EmptySeq, LenProperties DEF op
    <3> QED BY <1>6, <3>1 DEF SendText, StreamInv, TodoIsNew
  <2> QED BY <1>6, <2>1, <2>2, SendInv DEF SendText
<1>7. CASE SendArguments
  <2> DEFINE c == op.to
  <2>1. c \in Tools /\ toolBlock[c] # None /\ toolBlock[c] \in Nat
    BY <1>0, <1>7 DEF SendArguments, IsNew, TypeOK
  <2>2. toolBlock[c] + 1 \in BlocksOf(c)
    BY <2>1 DEF StreamInv, ToolsAreTracked
  <2>3. \A b \in BlocksOf(c) : b <= toolBlock[c] + 1
    <3>1. \A b \in BlocksOf(c) : b \in Nat /\ toolBlock[c] = b - 1
      BY <1>0, <2>1, BlocksTyped DEF StreamInv, ToolsAreTracked, BlocksOf
    <3> QED BY <2>1, <3>1
  <2> QED BY <1>7, <2>1, <2>2, <2>3, SendInv DEF SendArguments
<1>8. CASE CloseText
  <2>1. textIndex \in Nat /\ textIndex + 1 \in BlocksOf(Text) /\ Text \in Channels
    BY <1>0, <1>8 DEF CloseText, StreamInv, TextIsTracked, TypeOK, Channels
  <2>2. phase # "fetch"
    BY <1>0, <1>8 DEF CloseText
  <2> QED BY <1>8, <2>1, <2>2, StopInv DEF CloseText
<1>9. ASSUME NEW i \in Tools, StopTool(i) PROVE StreamInv'
  <2>1. toolBlock[i] # None /\ toolBlock[i] \in Nat /\ i \in Channels
    BY <1>0, <1>9 DEF StopTool, IsOpen, TypeOK, Channels
  <2>2. toolBlock[i] + 1 \in BlocksOf(i)
    BY <2>1 DEF StreamInv, ToolsAreTracked
  <2> QED BY <1>9, <2>1, <2>2, StopInv DEF StopTool
<1>10. CASE UNCHANGED vars
  <2>1. TypeOK' /\ SentIsBounded' /\ EndFollowsPhase'
    BY <1>10 DEF StreamInv, TypeOK, SentIsBounded, EndFollowsPhase, vars, local
  <2>2. TextIsTracked' /\ ToolsAreTracked'
    BY <1>10 DEF StreamInv, TextIsTracked, ToolsAreTracked, BlocksOf, vars, local
  <2>3. TodoIsNew' /\ PiecesInOrder' /\ NothingForgotten'
    BY <1>10 DEF StreamInv, TodoIsNew, PiecesInOrder, NothingForgotten, Translated,
                 Shown, Awaited, BlocksOf, vars, local
  <2> QED BY <2>1, <2>2, <2>3 DEF StreamInv
<1> QED
  BY <1>1, <1>2, <1>3, <1>4, <1>5, <1>6, <1>7, <1>8, <1>9, <1>10
  DEF Next, Gateway, Translate, Terminated

LEMMA InvAlways == Spec => []StreamInv
BY InitInv, NextInv, PTL DEF Spec

-----------------------------------------------------------------------------
(***************************************************************************)
(* The variables of the translators keep their types, and nextBlock counts *)
(* the blocks the client was told of (stream.js).                          *)
(***************************************************************************)
THEOREM TypeCorrect == Spec => []TypeOK
BY InvAlways, PTL DEF StreamInv

(***************************************************************************)
(* Whatever the gateway interleaves, the pieces of each channel arrive in  *)
(* the order they were sent, none twice and none invented (stream.js).     *)
(***************************************************************************)
THEOREM InOrder == Spec => []PiecesInOrder
BY InvAlways, PTL DEF StreamInv

(***************************************************************************)
(* An answer that is presented as complete lacks nothing that was sent on  *)
(* a translated channel in a line with a newline (stream.js, sse.js).      *)
(***************************************************************************)
THEOREM Complete == Spec => []NothingLost
<1>1. StreamInv => NothingLost
  <2>1. ASSUME StreamInv, end = "complete" PROVE DOMAIN todo = {}
    <3>1. todo = <<>> /\ TypeOK
      BY <2>1 DEF StreamInv, EndFollowsPhase
    <3> QED BY <3>1
  <2> QED BY <2>1 DEF StreamInv, NothingForgotten, NothingLost, Awaited
<1> QED BY <1>1, InvAlways, PTL

(***************************************************************************)
(* A tool call is one block, and no two blocks of text are open at once    *)
(* (toolBlockIndex, openText() and closeText() of stream.js).              *)
(***************************************************************************)
THEOREM OneBlock == Spec => []OneBlockPerCall
<1>1. StreamInv => OneBlockPerCall
  <2> SUFFICES ASSUME StreamInv, NEW a \in DOMAIN blocks, NEW b \in DOMAIN blocks,
                      a # b, blocks[a].to = blocks[b].to
               PROVE  blocks[a].to = Text /\ ~(blocks[a].open /\ blocks[b].open)
    BY DEF OneBlockPerCall
  <2> DEFINE c == blocks[a].to
  <2>1. c \in Channels /\ a \in BlocksOf(c) /\ b \in BlocksOf(c) /\ a \in Nat /\ b \in Nat
    BY BlocksTyped DEF StreamInv, BlocksOf
  <2>2. c \notin Tools
    BY <2>1 DEF StreamInv, ToolsAreTracked
  <2>3. c = Text
    BY <2>1, <2>2 DEF Channels
  <2> QED BY <2>1, <2>3 DEF StreamInv, TextIsTracked
<1> QED BY <1>1, InvAlways, PTL

(***************************************************************************)
(* The frames of both translators follow the protocol of a stream of the   *)
(* Messages API: StreamTranslate implements MessageStream.                 *)
(***************************************************************************)
THEOREM Refinement == Spec => ClientReadsAStream
<1>1. Init => Client!Init
  BY DEF Init, Client!Init
<1>2. StreamInv /\ [Next]_vars => [Client!Next]_<<blocks, end>>
  <2> SUFFICES ASSUME StreamInv, [Next]_vars PROVE Client!Next \/ UNCHANGED <<blocks, end>>
    OBVIOUS
  <2>0. /\ TypeOK
        /\ phase = "fetch" <=> end = "none"
        /\ phase \in {"reading", "failing", "closing"} => end = "open"
        /\ Text \in Channels
    BY DEF StreamInv, EndFollowsPhase, Channels
  <2>1. CASE FetchFails
    BY <2>0, <2>1 DEF FetchFails, Client!Refuse, Client!Next
  <2>2. CASE Begin
    <3>1. CASE dialect = "responses"
      <4>1. blocks = <<>>
        BY <2>2 DEF Begin, StreamInv, EndFollowsPhase
      <4> QED
        BY <2>0, <2>2, <3>1, <4>1
        DEF Begin, StartBlock, Client!StartBlock, Client!BlocksOf, Client!Next
    <3>2. CASE dialect # "responses"
      BY <2>0, <2>2, <3>2 DEF Begin, Client!Begin, Client!Next
    <3> QED BY <3>1, <3>2
  <2>3. CASE GatewayBreaks \/ SendError
    BY <2>0, <2>3 DEF GatewayBreaks, SendError, Waiting, Client!Fail, Client!Next
  <2>4. CASE ReadError \/ GatewayEnds
    BY <2>4 DEF ReadError, GatewayEnds
  <2>5. ASSUME NEW l \in Line, ReadLine(l) \/ GatewayEndsInLine(l) PROVE UNCHANGED <<blocks, end>>
    BY <2>5 DEF ReadLine, GatewayEndsInLine
  <2>6. CASE OpenText
    <3>1. \A b \in BlocksOf(Text) : ~blocks[b].open
      BY <2>6 DEF OpenText, StreamInv, TextIsTracked
    <3> QED
      BY <2>0, <2>6, <3>1
      DEF OpenText, StartBlock, BlocksOf, Client!StartBlock, Client!BlocksOf, Client!Next
  <2>7. CASE StartTool
    <3>1. op.to \in Channels /\ op.to \in Tools
      BY <2>7 DEF StartTool, IsNew, Channels
    <3>2. \A b \in BlocksOf(Text) : ~blocks[b].open
      BY <2>7 DEF StartTool, StreamInv, TextIsTracked
    <3>3. BlocksOf(op.to) = {}
      <4> SUFFICES ASSUME NEW b \in BlocksOf(op.to) PROVE FALSE
        OBVIOUS
      <4>1. toolBlock[op.to] = b - 1
        BY <3>1 DEF StreamInv, ToolsAreTracked
      <4>2. b - 1 \in Nat
        BY <2>0, BlocksTyped DEF BlocksOf
      <4> QED BY <2>7, <4>1, <4>2, NoneAssumption DEF StartTool, IsNew
    <3> QED
      BY <2>0, <2>7, <3>1, <3>2, <3>3
      DEF StartTool, StartBlock, BlocksOf, Client!StartBlock, Client!BlocksOf, Client!Next
  <2>8. ASSUME NEW b \in DOMAIN blocks, blocks[b].open, end = "open", UNCHANGED end, todo # <<>>,
               op.piece # 0,
               blocks' = [blocks EXCEPT ![b].got = Append(@, op.piece)]
        PROVE  Client!Next
    <3>1. op = todo[1] /\ 1 \in DOMAIN todo
      <4>1. todo \in Seq(Op) /\ todo # <<>>
        BY <2>0, <2>8 DEF TypeOK
      <4> QED BY <4>1, EmptySeq, LenProperties DEF op
    <3>2. op.to \in Channels /\ op.piece \in Nat /\ op.piece = sent[op.to]
      BY <2>0, <2>8, <3>1, TodoTyped DEF StreamInv, TodoIsNew
    <3>3. op.piece \in 1..MaxLines
      BY <2>0, <2>8, <3>2, BoundsAssumption DEF StreamInv, SentIsBounded, TypeOK
    <3> QED BY <2>8, <3>3 DEF Client!SendPiece, Client!Next
  <2>9. CASE SendText
    <3>1. textIndex + 1 \in DOMAIN blocks /\ blocks[textIndex + 1].open
      BY <2>9 DEF SendText, StreamInv, TextIsTracked, BlocksOf
    <3>2. op.piece # 0
      <4>1. todo \in Seq(Op) /\ todo # <<>>
        BY <2>0, <2>9 DEF SendText, TypeOK
      <4>2. op = todo[1] /\ 1 \in DOMAIN todo
        BY <4>1, EmptySeq, LenProperties DEF op
      <4> QED BY <2>9, <4>2 DEF SendText, StreamInv, TodoIsNew
    <3> QED BY <2>0, <2>8, <2>9, <3>1, <3>2 DEF SendText, SendPiece
  <2>10. CASE SendArguments
    <3>1. toolBlock[op.to] + 1 \in DOMAIN blocks /\ blocks[toolBlock[op.to] + 1].open
      BY <2>10 DEF SendArguments, IsNew, StreamInv, ToolsAreTracked, BlocksOf
    <3>2. CASE op.piece = 0
      BY <2>10, <3>2 DEF SendArguments
    <3>3. CASE op.piece # 0
      BY <2>0, <2>8, <2>10, <3>1, <3>3 DEF SendArguments, SendPiece
    <3> QED BY <3>2, <3>3
  <2>11. CASE CloseText
    <3>1. textIndex + 1 \in DOMAIN blocks /\ blocks[textIndex + 1].open
      BY <2>11 DEF CloseText, StreamInv, TextIsTracked, BlocksOf
    <3>2. end = "open"
      BY <2>0, <2>11 DEF CloseText, ClosesText, MeetsNewTool
    <3> QED BY <2>11, <3>1, <3>2 DEF CloseText, StopBlock, Client!StopBlock, Client!Next
  <2>12. ASSUME NEW i \in Tools, StopTool(i) PROVE Client!Next
    <3>1. toolBlock[i] + 1 \in DOMAIN blocks /\ blocks[toolBlock[i] + 1].open
      BY <2>12 DEF StopTool, IsOpen, StreamInv, ToolsAreTracked, BlocksOf
    <3> QED BY <2>0, <2>12, <3>1 DEF StopTool, StopBlock, Client!StopBlock, Client!Next
  <2>13. CASE Finish
    <3>1. \A b \in DOMAIN blocks : ~blocks[b].open
      <4> SUFFICES ASSUME NEW b \in DOMAIN blocks, blocks[b].open PROVE FALSE
        OBVIOUS
      <4>1. blocks[b].to \in Channels /\ b \in BlocksOf(blocks[b].to) /\ b \in Nat
        BY <2>0, BlocksTyped DEF BlocksOf
      <4>2. CASE blocks[b].to = Text
        BY <2>13, <4>1, <4>2 DEF StreamInv, TextIsTracked, Finish, NothingToClose
      <4>3. CASE blocks[b].to \in Tools
        <5>1. toolBlock[blocks[b].to] = b - 1
          BY <4>1, <4>3 DEF StreamInv, ToolsAreTracked
        <5>2. (b - 1) + 1 = b /\ b - 1 \in Nat
          BY <2>0, <4>1, BlocksTyped
        <5> QED BY <2>13, <4>3, <5>1, <5>2, NoneAssumption DEF Finish, NothingToClose, IsOpen
      <4> QED BY <4>1, <4>2, <4>3 DEF Channels
    <3> QED BY <2>0, <2>13, <3>1 DEF Finish, Client!Complete, Client!Next
  <2>14. CASE UNCHANGED vars
    BY <2>14 DEF vars
  <2> QED
    BY <2>1, <2>2, <2>3, <2>4, <2>5, <2>6, <2>7, <2>9, <2>10, <2>11, <2>12, <2>13, <2>14
    DEF Next, Gateway, Translate, Terminated
<1> QED BY <1>1, <1>2, InvAlways, PTL DEF Spec, ClientReadsAStream, Client!Spec
=============================================================================
