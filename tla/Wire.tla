-------------------------------- MODULE Wire --------------------------------
(***************************************************************************)
(* The wire format: raw messages, their frames on TCP and datagrams on     *)
(* UDP, and the payloads that are built from parts of varying length:      *)
(* chat and the synchronisation after a login.                             *)
(*                                                                         *)
(* Bytes are digits of base Base (256), little endian; lengths and         *)
(* counters are as wide as in the code.  Text is a sequence of bytes, of   *)
(* which Space and Slash mean something.  A decoder returns the set of     *)
(* what it decodes: empty when it returns an error.                        *)
(***************************************************************************)
EXTENDS Naturals, Sequences, SequencesExt

CONSTANTS
  Base,      \* values of a byte
  UdpBuffer, \* 128: bytes read of a datagram
  Header     \* bytes of an encoded player before its nickname

Byte == 0..Base - 1
Space == 0 \* white space
Slash == 1 \* begins a command

ASSUME WireAssumption == Base \in Nat \ {0, 1} /\ UdpBuffer \in Nat /\ Header \in Nat \ {0}

\* An integer of two or of four bytes; what does not fit is cut off.
Uint16(n) == <<n % Base, (n \div Base) % Base>>
Uint32(n) == Uint16(n) \o Uint16((n \div Base) \div Base)

\* The integer of up to four bytes.
Value(bytes) ==
  LET digit(i) == IF i <= Len(bytes) THEN bytes[i] ELSE 0
  IN  digit(1) + Base * (digit(2) + Base * (digit(3) + Base * digit(4)))

First(bytes, n) == SubSeq(bytes, 1, n)
After(bytes, n) == SubSeq(bytes, n + 1, Len(bytes))

-----------------------------------------------------------------------------
(* Raw messages: type, data, error. *)

\* Those whose lengths can be encoded.
Message ==
  {msg \in [type : Byte, data : Seq(Byte), error : Seq(Byte)] :
     Len(msg.data) < Base * Base * Base * Base /\ Len(msg.error) < Base * Base}

EncodeRawMessage(msg) ==
  <<msg.type>> \o Uint32(Len(msg.data)) \o msg.data \o Uint16(Len(msg.error)) \o msg.error

\* What io.ReadFull fills from the front of bytes, if there is enough.
ReadFull(bytes, n) == IF Len(bytes) < n THEN {} ELSE {First(bytes, n)}

\* A block of bytes preceded by its length in k bytes.
\* Mutant: Read instead of ReadFull: what is missing stays zero.
ReadBlock_Short(bytes, k) ==
  {[i \in 1..Value(l) |-> IF k + i <= Len(bytes) THEN bytes[k + i] ELSE 0] : l \in ReadFull(bytes, k)}
ReadBlock(bytes, k) ==
  UNION {ReadFull(After(bytes, k), Value(l)) : l \in ReadFull(bytes, k)}

DecodeRawMessage(bytes) ==
  UNION {{[type |-> bytes[1], data |-> data, error |-> error] :
            error \in ReadBlock(After(bytes, 1 + 4 + Len(data)), 2)} :
          data \in IF bytes = <<>> THEN {} ELSE ReadBlock(After(bytes, 1), 4)}

-----------------------------------------------------------------------------
(* TCP and UDP. *)

\* What SendTCPMessage writes for an encoded message.
Frame(raw) == Uint32(Len(raw)) \o raw

\* The messages handleTCPConnection passes on before its loop ends.  What
\* cannot be decoded is logged and the loop goes on.
\* Mutant: the length is taken to include itself.
Size_Inclusive(length) == Value(length) - 4
Size(length) == Value(length)
ReadFrames(stream) ==
  LET from[n \in 0..Len(stream)] ==
        LET rest == After(stream, n)
            raw == First(After(rest, 4), Size(First(rest, 4)))
        IN  IF Len(rest) < 4 \/ Len(rest) < 4 + Size(First(rest, 4)) THEN <<>>
            ELSE SetToSeq(DecodeRawMessage(raw)) \o from[n + 4 + Len(raw)]
  IN  from[0]

\* A datagram as a client sends it, and the message handleUDPConnection makes
\* of what fits the buffer: the connection's number is in front.
Datagram(id, msg) == Uint32(id) \o EncodeRawMessage(msg)
ReadDatagram(datagram) ==
  LET received == First(datagram, IF Len(datagram) < UdpBuffer THEN Len(datagram) ELSE UdpBuffer)
  IN  IF Len(received) < 4 THEN {} ELSE DecodeRawMessage(After(received, 4))

-----------------------------------------------------------------------------
(* Chat. *)

\* strings.TrimSpace
TrimSpace(text) ==
  LET inner == {i \in DOMAIN text : text[i] # Space}
  IN  IF inner = {} THEN <<>>
      ELSE SubSeq(text, CHOOSE i \in inner : \A j \in inner : i <= j,
                        CHOOSE i \in inner : \A j \in inner : j <= i)

\* Reader.Read returns an error at the end of the data, even for no bytes.
DecodeChatMessage(data) ==
  IF data = <<>> \/ Len(data) - 1 < data[1] \/ Len(data) = 1 THEN {}
  ELSE {TrimSpace(First(After(data, 1), data[1]))}

\* Mutant: a text of maximal length is refused.
TooLong_OffByOne(text) == Len(text) >= Base - 1
TooLong(text) == Len(text) > Base - 1

EncodeChatMessage(type, from, text) ==
  IF TooLong(from) \/ TooLong(text) THEN {}
  ELSE {<<type, Len(from)>> \o from \o <<Len(text)>> \o text}

General == 0

\* handleChat of a player who is logged in: what it answers, or tells all.
HandleChat(nickname, data) ==
  LET decoded == DecodeChatMessage(data)
      text == CHOOSE t \in decoded : TRUE
      encoded == EncodeChatMessage(General, nickname, text)
  IN  IF decoded = {} THEN [kind |-> "invalid"]
      ELSE IF text = <<>> THEN [kind |-> "empty"]
      ELSE IF text[1] = Slash THEN [kind |-> "command"]
      ELSE IF encoded = {} THEN [kind |-> "failed"]
      ELSE [kind |-> "broadcast", data |-> CHOOSE d \in encoded : TRUE]

-----------------------------------------------------------------------------
(* The state sent after a login.  A player is an identifier and a nickname; *)
(* a country an identifier and a code.                                      *)

EncodePlayer(player) ==
  IF TooLong(player.nickname) THEN {}
  ELSE {[i \in 1..Header |-> player.id] \o <<Len(player.nickname)>> \o player.nickname}

EncodeCountry(country) == <<country.id, Len(country.code) % Base>> \o country.code \o <<0>>

\* Players that cannot be encoded are left out.
PlayerBytes(players) ==
  FlattenSeq([i \in DOMAIN players |-> FlattenSeq(SetToSeq(EncodePlayer(players[i])))])
CountryBytes(countries) ==
  FlattenSeq([i \in DOMAIN countries |-> EncodeCountry(countries[i])])

\* Mutant: the length of the players is one byte.
EncodeSyncStateData_Narrow(players, countries, online) ==
  <<Len(players) % Base>>
    \o Uint16(Len(PlayerBytes(players)) % Base) \o PlayerBytes(players)
    \o <<Len(countries) % Base>> \o Uint16(Len(CountryBytes(countries))) \o CountryBytes(countries)
    \o <<online % Base>>
\* All players are counted.
EncodeSyncStateData(players, countries, online) ==
  <<Len(players) % Base>> \o Uint16(Len(PlayerBytes(players))) \o PlayerBytes(players)
    \o <<Len(countries) % Base>> \o Uint16(Len(CountryBytes(countries))) \o CountryBytes(countries)
    \o <<online % Base>>

-----------------------------------------------------------------------------
(* Reference readers: what a client can tell from the bytes alone. *)

\* n items of shape: bytes before a length byte, the text, bytes after it.
Text(bytes, before) ==
  IF Len(bytes) < before + 1 THEN {} ELSE ReadBlock(After(bytes, before), 1)
Items(bytes, n, before, after) ==
  LET read[k \in 0..n] ==
        IF k = 0 THEN {[items |-> <<>>, rest |-> bytes]}
        ELSE UNION {
          {[items |-> Append(r.items, [id |-> r.rest[1], text |-> text]),
            rest |-> After(r.rest, before + 1 + Len(text) + after)] : text \in Text(r.rest, before)} :
           r \in read[k - 1]}
  IN  read[n]

\* A counter, a block of that many items that fill it, and what follows.
Section(bytes, before, after) ==
  UNION {
    {[items |-> read.items, rest |-> After(bytes, 3 + Len(block))] :
       read \in Items(block, bytes[1], before, after)} : block \in ReadBlock(After(bytes, 1), 2)}

ReadSyncState(bytes) ==
  UNION {{[players |-> p.items, countries |-> c.items, online |-> c.rest] :
            c \in Section(p.rest, 1, 1)} : p \in Section(bytes, Header, 0)}
=============================================================================
