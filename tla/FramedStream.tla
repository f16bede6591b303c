---------------------------- MODULE FramedStream ----------------------------
(***************************************************************************)
(* A stream of messages on its way from a sender's CreateBuffer to the     *)
(* receiver's one MessageParser, which outlives connections.  Bytes arrive *)
(* in order, split anywhere; between two reads there may be a pause of     *)
(* more than a second, upon which ParserBase resets the parser; a          *)
(* connection may break in mid-message and another be opened five seconds  *)
(* later; a byte of a message's content may be damaged.                    *)
(*                                                                         *)
(* Or the parser is the one that all connections of the dashboard's        *)
(* SignalR hub share: the stream is then the messages of all connections,  *)
(* each fed as one buffer.  Two may be fed at the same time, and an        *)
(* exception of a handler leaves its connection open and the parser where  *)
(* it was.                                                                 *)
(***************************************************************************)
EXTENDS MessageParser

CONSTANTS
  Bodies,       \* the messages that are sent; `content` of a multipart is PartsBuffer
  Parts,        \* for each body, the messages the receiver should be given for it
  StreamLength, \* bound: messages in a stream
  Damage,       \* values a damaged content byte may take
  MaxFaults     \* bound: pauses inside a message, breaks, damaged bytes, messages
                \* that meet and exceptions

\* The length of a content is an int.
MaxLength == 2147483647
Sendable  == {m \in ServerMessages : Len(CompressBuffer(m.content)) <= MaxLength}

ASSUME FramedStreamAssumption ==
  /\ Bodies \subseteq Sendable
  /\ Parts \in [Bodies -> Seq(Sendable)]
  /\ \A m \in Bodies :
       IF m.contentType = Multipart
       THEN /\ m.content = PartsBuffer(Parts[m])
            /\ \A i \in DOMAIN Parts[m] : Parts[m][i].contentType # Multipart
       ELSE Parts[m] = <<m>>
  /\ StreamLength \in Nat
  /\ Damage \subseteq Byte
  /\ MaxFaults \in Nat

VARIABLES
  shared,     \* the parser is the hub's, not the one of a socket
  parser,     \* the receiver's parser
  delivered,  \* what MessageParsed was raised with while each message came in
  sent,       \* the messages of the stream
  current,    \* which of them is being received
  wire,       \* its bytes
  received,   \* how many of them have been fed
  inside,     \* what is left of the content of a multipart, fed before anything else
  intact,     \* nothing has happened to the current message on the way
  synced,     \* the receiver's parser is in step with the messages
  arrived,    \* history: the messages that arrived whole at a parser in step
  faults      \* how many faults have happened

vars == <<shared, parser, delivered, sent, current, wire, received, inside, intact,
          synced, arrived, faults>>

\* What the parser raises for a message: its parameter as the four bytes read.
Shown(m) == [m EXCEPT !.parameter = Int32Bytes(@)]

Encoded == [m \in Bodies |-> CreateBuffer(m)]
Given   == [m \in Bodies |-> [i \in DOMAIN Parts[m] |-> Shown(Parts[m][i])]]

Wire(i)  == IF i \in DOMAIN sent THEN Encoded[sent[i]] ELSE <<>>
Gives(i) == Given[sent[i]]

Init ==
  /\ shared \in BOOLEAN
  /\ parser = NewParser
  /\ delivered = [i \in 1..StreamLength |-> <<>>]
  /\ sent \in [1..StreamLength -> Bodies]
  /\ current = 1
  /\ wire = Wire(1)
  /\ received = 0
  /\ inside = <<>>
  /\ intact = TRUE
  /\ synced = TRUE
  /\ arrived = {}
  /\ faults = 0

\* The stream goes on to the next message.
NextMessage ==
  /\ current' = current + 1
  /\ wire' = Wire(current + 1)
  /\ received' = 0
  /\ inside' = <<>>
  /\ intact' = TRUE

\* n bytes of the message have been fed, and a content up to `rest`.
FedUpTo(n, rest, whole) ==
  IF n = Len(wire) /\ rest = <<>>
  THEN NextMessage
  ELSE /\ received' = n
       /\ inside' = rest
       /\ intact' = whole
       /\ UNCHANGED <<current, wire>>

NextByte == IF inside = <<>> THEN wire[received + 1] ELSE Head(inside)

\* MessageParsed is raised.
Raise(messages) ==
  delivered' = [delivered EXCEPT ![current] =
                  @ \o [i \in DOMAIN messages |-> [message |-> messages[i], inStep |-> synced]]]

\* One byte, of a content or of a read; that reads split the stream anywhere is that
\* feeding a buffer is feeding its bytes.
FeedNext ==
  LET step == FeedByte(parser, NextByte) IN
  /\ wire # <<>>
  /\ ~DecompressThrows(parser, NextByte)
  /\ parser' = step.parser
  /\ Raise(step.raised)
  /\ IF inside = <<>>
     THEN FedUpTo(received + 1, step.inside, intact)
     ELSE FedUpTo(received, step.inside \o Tail(inside), intact)
  /\ arrived' = IF current' # current /\ intact /\ synced
                THEN arrived \cup {current} ELSE arrived
  /\ UNCHANGED <<shared, sent, synced, faults>>

\* More than a second between two messages: the next read resets the parser.
Pause ==
  /\ received = 0
  /\ wire # <<>>
  /\ parser' = ResetParserState(parser)
  /\ synced' = TRUE
  /\ UNCHANGED <<shared, delivered, sent, current, wire, received, inside, intact,
                 arrived, faults>>

\* More than a second inside a message: the rest of it is read from Init on,
\* and so is whatever follows it.
PauseInside ==
  /\ ~shared
  /\ received > 0
  /\ inside = <<>>
  /\ faults < MaxFaults
  /\ parser' = ResetParserState(parser)
  /\ intact' = FALSE
  /\ synced' = FALSE
  /\ faults' = faults + 1
  /\ UNCHANGED <<shared, delivered, sent, current, wire, received, inside, arrived>>

\* The connection breaks; the next message comes over another one, at least
\* five seconds later.  The parser is the same.
Break ==
  /\ ~shared
  /\ received > 0
  /\ inside = <<>>
  /\ faults < MaxFaults
  /\ NextMessage
  /\ parser' = ResetParserState(parser)
  /\ synced' = TRUE
  /\ faults' = faults + 1
  /\ UNCHANGED <<shared, delivered, sent, arrived>>

\* A byte of the content that has not arrived yet is damaged.  The sums are
\* modulo 255, so 0 and 255 are the same to them.  A byte of the header is not
\* under the checksum: what is made of it then is not among the faults.
DamageByte(i, b) ==
  /\ ~shared
  /\ faults < MaxFaults
  /\ i \in (received + 1)..(Len(wire) - 2)
  /\ i > 12
  /\ wire[i] % 255 # b % 255
  /\ intact
  /\ wire' = [wire EXCEPT ![i] = b]
  /\ intact' = FALSE
  /\ faults' = faults + 1
  /\ UNCHANGED <<shared, parser, delivered, sent, current, received, inside, synced, arrived>>

\* What two threads that feed one parser at once may leave of it: any state, with
\* fields and an InnerBuffer that need not belong to it.
Torn ==
  {[NewParser EXCEPT !.state = s, !.inner = <<1, 0>>, !.length = Int32Bytes(1), !.expected = <<1, 1>>] :
     s \in ParserStates}

\* A buffer that is not in the stream is fed while bytes of this one are.  Messages
\* raised meanwhile are left out: what they are is anybody's guess.  At most one
\* meeting is the bound.
Collide ==
  /\ shared
  /\ faults = 0
  /\ faults < MaxFaults
  /\ wire # <<>>
  /\ parser' \in Torn
  /\ IF inside = <<>>
     THEN \E n \in (received + 1)..Len(wire) : FedUpTo(n, <<>>, FALSE)
     ELSE \E n \in 1..Len(inside) : FedUpTo(received, SubSeq(inside, n + 1, Len(inside)), FALSE)
  /\ synced' = FALSE
  /\ faults' = faults + 1
  /\ UNCHANGED <<shared, delivered, sent, arrived>>

\* A handler throws: Feed ends before it resets the parser, and what is left of the
\* buffer is never fed.
HandlerThrows ==
  LET step == FeedByte(parser, NextByte) IN
  /\ shared
  /\ faults < MaxFaults
  /\ wire # <<>>
  /\ step.raised # <<>>
  /\ ~DecompressThrows(parser, NextByte)
  /\ parser' = [parser EXCEPT !.inner = <<>>]
  /\ Raise(step.raised)
  /\ NextMessage
  /\ arrived' = IF intact /\ synced /\ Len(inside) <= 1
                THEN arrived \cup {current} ELSE arrived
  /\ synced' = FALSE
  /\ faults' = faults + 1
  /\ UNCHANGED <<shared, sent>>

\* A parser out of step may come upon a content that cannot be decompressed.  The
\* exception ends the connection, or on the hub just the buffer.
DecompressFails ==
  /\ wire # <<>>
  /\ DecompressThrows(parser, NextByte)
  /\ NextMessage
  /\ parser' = IF shared THEN [parser EXCEPT !.inner = <<>>] ELSE ResetParserState(parser)
  /\ synced' = ~shared
  /\ UNCHANGED <<shared, delivered, sent, arrived, faults>>

Next ==
  \/ FeedNext
  \/ Pause
  \/ PauseInside
  \/ Break
  \/ \E i \in DOMAIN wire, b \in Damage : DamageByte(i, b)
  \/ Collide
  \/ HandlerThrows
  \/ DecompressFails

Spec == Init /\ [][Next]_vars

-----------------------------------------------------------------------------
\* What InnerBuffer may hold: fewer bytes than the field being read has; before
\* Init has cleared it, what is left of a broken message.
InnerFits ==
  \/ parser.state = "Init"
  \/ parser.state \in {"Header", "Type", "ContentType"} /\ parser.inner = <<>>
  \/ parser.state \in {"Parameter", "Length"} /\ Len(parser.inner) < 4
  \/ parser.state = "Content" /\ parser.length # Int32Bytes(0)
  \/ parser.state = "Checksum" /\ Len(parser.inner) < 2

Deliveries ==
  [message : [type : Byte, parameter : Seq(Byte), contentType : Byte, content : Seq(Byte)],
   inStep : BOOLEAN]

(* The values the variables take, and that InnerBuffer of a parser in step  *)
(* never holds a whole field or anything that belongs to an earlier one.   *)
TypeOK ==
  /\ {shared, intact, synced} \subseteq BOOLEAN
  /\ parser \in Parsers
  /\ synced => InnerFits
  /\ delivered \in [1..StreamLength -> Seq(Deliveries)]
  /\ sent \in [1..StreamLength -> Bodies]
  /\ current \in 1..(StreamLength + 1)
  /\ wire \in Seq(Byte)
  /\ wire # <<>> <=> current <= StreamLength
  /\ received \in 0..Len(wire)
  /\ inside \in Seq(Byte)
  /\ arrived \subseteq 1..StreamLength
  /\ faults \in 0..MaxFaults

Messages(deliveries) == [i \in DOMAIN deliveries |-> deliveries[i].message]

(* Every message that arrives whole, at a receiver that was between        *)
(* messages, is delivered while it arrives and nothing else is: itself, or *)
(* each part of a multipart one by one and in the order sent, whatever was *)
(* broken off before it and however reads split it.  On the hub, so is     *)
(* every message that no other meets, once a second without any has passed *)
(* since two have met: the reset clears up whatever they have left.        *)
WholeDelivered == \A k \in arrived : Messages(delivered[k]) = Gives(k)

(* A parser in step delivers nothing that was not sent, nor twice, nor out *)
(* of order: what it delivers while a message arrives are the first of its *)
(* parts, also if the message breaks off or is damaged, and whatever was   *)
(* broken off before.  A parser that a pause has put out of step may: the  *)
(* rest of a content is then searched for a message, and an empty one has  *)
(* a checksum that is always zero.                                         *)
NothingInvented ==
  \A k \in 1..StreamLength : \A i \in DOMAIN delivered[k] :
     delivered[k][i].inStep =>
        i \in DOMAIN Gives(k) /\ delivered[k][i].message = Gives(k)[i]

(* Between messages the parser of an undisturbed receiver waits for the    *)
(* next one: a message never leaves it waiting for bytes that are not      *)
(* coming.                                                                 *)
ReadyBetween == (synced /\ intact /\ received = 0) => parser.state = "Init"
=============================================================================
