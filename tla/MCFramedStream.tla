--------------------------- MODULE MCFramedStream ---------------------------
(* Streams of messages of three kinds: one without content, one whose content *)
(* looks like the beginning of a message, one that carries two parts.       *)
EXTENDS FramedStream

Message(t, p, c, content) ==
  [type |-> t, parameter |-> p, contentType |-> c, content |-> content]

Join  == Message(1, 2, 0, <<>>)
Xaml  == Message(2, 258, 1, <<190, 239>>)
Asm   == Message(2, 190, 9, <<255, 7>>)
Both  == Message(2, 0, Multipart, PartsBuffer(<<Asm, Join>>))

MCBodies == {Join, Xaml, Both}
MCParts  == [m \in MCBodies |-> IF m = Both THEN <<Asm, Join>> ELSE <<m>>]
=============================================================================
