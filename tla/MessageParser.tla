---------------------------- MODULE MessageParser ----------------------------
(***************************************************************************)
(* The wire format of LiveSharp's messages and the byte-by-byte parser     *)
(* that reads it (ServerMessage.CreateBuffer and MessageParser).           *)
(*                                                                         *)
(* A message is a record of type, parameter, content type and content; the *)
(* parser is a record of the fields of its class.  Feeding a byte gives    *)
(* the next parser and the messages that MessageParsed was raised with.    *)
(***************************************************************************)
EXTENDS Naturals, Sequences, SequencesExt

Byte      == 0..255
Magic     == <<190, 239>>   \* 0xbe 0xef
Multipart == 200            \* ContentTypes.Multipart

ServerMessages == [type : Byte, parameter : Nat, contentType : Byte, content : Seq(Byte)]

\* BitConverter.GetBytes of a non-negative int: four bytes, low first.
Int32Bytes(n) ==
  <<n % 256, (n \div 256) % 256, (n \div 65536) % 256, (n \div 16777216) % 256>>

\* The two sums of Fletcher16 after n bytes.
FletcherSums(bytes) ==
  LET sums[n \in 0..Len(bytes)] ==
        IF n = 0 THEN <<0, 0>>
        ELSE LET last == sums[n - 1]
                 s1   == (last[1] + bytes[n]) % 255
             IN <<s1, (last[2] + s1) % 255>>
  IN sums

\* Fletcher16 as the two bytes of its ushort, low first.
Fletcher16(bytes) == FletcherSums(bytes)[Len(bytes)]

\* GZip, which writes nothing at all for no data.  Only its first byte and that
\* it can be undone matter here.
CompressBuffer(content)  == IF content = <<>> THEN <<>> ELSE <<31>> \o content
DecompressBuffer(packed) == IF packed = <<>> THEN <<>> ELSE Tail(packed)
Unpackable(packed)       == packed # <<>> /\ Head(packed) # 31

CreateBuffer(m) ==
  LET packed == CompressBuffer(m.content) IN
  Magic \o <<m.type>> \o Int32Bytes(m.parameter) \o <<m.contentType>>
        \o Int32Bytes(Len(packed)) \o packed \o Fletcher16(packed)

\* MultipartMessage.CreateBuffer: the buffers of the parts, one after another;
\* it is sent as the content of a message of type Multipart.
PartsBuffer(parts) == FlattenSeq([i \in DOMAIN parts |-> CreateBuffer(parts[i])])

-----------------------------------------------------------------------------
ParserStates ==
  {"Init", "Header", "Type", "Parameter", "ContentType", "Length", "Content", "Checksum"}

Parsers ==
  [state : ParserStates, inner : Seq(Byte), type : Byte, parameter : Seq(Byte),
   contentType : Byte, length : Seq(Byte), packed : Seq(Byte), expected : Byte \X Byte]

NewParser ==
  [state |-> "Init", inner |-> <<>>, type |-> 0, parameter |-> <<>>,
   contentType |-> 0, length |-> <<>>, packed |-> <<>>, expected |-> <<0, 0>>]

\* InnerBuffer is left as it is: Init clears it when a message begins.
ResetParserState(p) == [p EXCEPT !.state = "Init", !.expected = <<0, 0>>]

\* Mutant: a new message does not clear what a broken one has left.
OnInitKeeping(p, b) ==
  IF b = Magic[1] THEN [p EXCEPT !.state = "Header"] ELSE p

OnInit(p, b) ==
  IF b = Magic[1] THEN [p EXCEPT !.inner = <<>>, !.state = "Header"] ELSE p

OnHeader(p, b) ==
  IF b = Magic[2] THEN [p EXCEPT !.state = "Type"] ELSE ResetParserState(p)

OnType(p, b) == [p EXCEPT !.type = b, !.state = "Parameter"]

\* Fields of several bytes are collected in InnerBuffer.
OnParameter(p, b) ==
  LET bytes == Append(p.inner, b) IN
  IF Len(bytes) = 4
  THEN [p EXCEPT !.inner = <<>>, !.parameter = bytes, !.state = "ContentType"]
  ELSE [p EXCEPT !.inner = bytes]

OnContentType(p, b) == [p EXCEPT !.contentType = b, !.state = "Length"]

\* No content: the checksum is next, and the expected one stays zero.
OnLength(p, b) ==
  LET bytes == Append(p.inner, b) IN
  IF Len(bytes) # 4 THEN [p EXCEPT !.inner = bytes]
  ELSE IF bytes = Int32Bytes(0)
  THEN [p EXCEPT !.inner = <<>>, !.length = bytes, !.packed = <<>>, !.state = "Checksum"]
  ELSE [p EXCEPT !.inner = <<>>, !.length = bytes, !.state = "Content"]

\* Mutant: the length is compared before the byte is counted.
OnContentLate(p, b) ==
  LET bytes == Append(p.inner, b) IN
  IF Int32Bytes(Len(p.inner)) = p.length
  THEN [p EXCEPT !.inner = <<>>, !.packed = bytes,
                 !.expected = Fletcher16(bytes), !.state = "Checksum"]
  ELSE [p EXCEPT !.inner = bytes]

\* Compared as an int, so a length no buffer reaches is never complete.
OnContent(p, b) ==
  LET bytes == Append(p.inner, b) IN
  IF Int32Bytes(Len(bytes)) = p.length
  THEN [p EXCEPT !.inner = <<>>, !.packed = bytes,
                 !.expected = Fletcher16(bytes), !.state = "Checksum"]
  ELSE [p EXCEPT !.inner = bytes]

Parsed(p) == [type |-> p.type, parameter |-> p.parameter,
              contentType |-> p.contentType, content |-> DecompressBuffer(p.packed)]

\* One step of the parser: what it is then, what it has raised, and the content of
\* a multipart, which is fed to this same parser before any other byte.
Silent(p) == [parser |-> p, raised |-> <<>>, inside |-> <<>>]

\* Mutant: the checksum is read and not compared.
OnChecksumUnchecked(p, b) ==
  LET bytes == Append(p.inner, b)
      fresh == Silent(ResetParserState([p EXCEPT !.inner = <<>>]))
  IN IF Len(bytes) # 2 THEN Silent([p EXCEPT !.inner = bytes])
     ELSE IF p.contentType = Multipart
     THEN [fresh EXCEPT !.inside = DecompressBuffer(p.packed)]
     ELSE [fresh EXCEPT !.raised = <<Parsed(p)>>]

\* The second checksum byte completes a message: dropped if it does not match,
\* fed to the parser again if it is a multipart, raised otherwise.
OnChecksum(p, b) ==
  LET bytes == Append(p.inner, b)
      fresh == Silent(ResetParserState([p EXCEPT !.inner = <<>>]))
  IN IF Len(bytes) # 2 THEN Silent([p EXCEPT !.inner = bytes])
     ELSE IF bytes # p.expected THEN fresh
     ELSE IF p.contentType = Multipart
     THEN [fresh EXCEPT !.inside = DecompressBuffer(p.packed)]
     ELSE [fresh EXCEPT !.raised = <<Parsed(p)>>]

\* DecompressBuffer throws: a checksum that matches is that of a content nobody has
\* compressed.
DecompressThrows(p, b) ==
  /\ p.state = "Checksum"
  /\ Append(p.inner, b) = p.expected
  /\ Unpackable(p.packed)

FeedByte(p, b) ==
  IF p.state = "Checksum" THEN OnChecksum(p, b)
  ELSE Silent(CASE p.state = "Init"        -> OnInit(p, b)
                [] p.state = "Header"      -> OnHeader(p, b)
                [] p.state = "Type"        -> OnType(p, b)
                [] p.state = "Parameter"   -> OnParameter(p, b)
                [] p.state = "ContentType" -> OnContentType(p, b)
                [] p.state = "Length"      -> OnLength(p, b)
                [] p.state = "Content"     -> OnContent(p, b))
=============================================================================
