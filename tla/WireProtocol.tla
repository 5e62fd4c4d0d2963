--------------------------- MODULE WireProtocol ----------------------------
(***************************************************************************)
(* The wire protocol between OrderBookClient and the order book server: a  *)
(* tag byte, then a payload of the tag's size, integers in big-endian      *)
(* order.  It is written twice, with struct formats in                     *)
(* strategy/orderbook_client/protocol.py and by hand in                    *)
(* engine/src/protocol.cpp, and so it is here: the client's encoders and   *)
(* decoders go by the formats, the server's field by field.                *)
(*                                                                         *)
(* A stream is a sequence of bytes.  Sides and types of orders are names   *)
(* outside this module, and codes on the wire.                             *)
(***************************************************************************)
EXTENDS Integers, SequencesExt

CONSTANTS
    LongBytes,      \* the width of ids, prices and timestamps, 8 in the code
    QuantityBytes   \* the width of quantities, 4 in the code

ASSUME WidthAssumption == LongBytes \in Nat \ {0} /\ QuantityBytes \in Nat \ {0}

NEW_ORDER == 1      \* 0x01, client to server
CANCEL    == 2      \* 0x02, client to server
SUBSCRIBE_FILLS == 3  \* 0x03, client to server, without a payload
FILL      == 16     \* 0x10, server to client
ACK       == 17     \* 0x11, server to client

SideCode(side) == IF side = "Buy" THEN 0 ELSE 1
SideName(code) == IF code = 0 THEN "Buy" ELSE "Sell"
TypeCode(type) == IF type = "Limit" THEN 0 ELSE 1
TypeName(code) == IF code = 0 THEN "Limit" ELSE "Market"

-----------------------------------------------------------------------------
(* Integers as bytes. *)

(* How many values so many bytes can tell apart, and these values, without *)
(* and with a sign.                                                        *)
Capacity(width) ==
    LET Values[k \in 0..width] == IF k = 0 THEN 1 ELSE 256 * Values[k - 1]
    IN  Values[width]

UnsignedRange(width) == 0..(Capacity(width) - 1)
SignedRange(width)   == (-(Capacity(width) \div 2))..(Capacity(width) \div 2 - 1)

(* An integer shifted to the right by 0, 1, ... bytes.                     *)
Shifted(value, width) ==
    LET shift[k \in 0..(width - 1)] == IF k = 0 THEN value ELSE shift[k - 1] \div 256
    IN  shift

(* The low bytes of an integer, the most significant one first; those of a *)
(* negative integer are its two's complement.                              *)
BigEndian(value, width) ==
    LET shifted == Shifted(value, width)
    IN  [i \in 1..width |-> shifted[width - i] % 256]

(* The integer that some bytes stand for.                                  *)
FromBytes(bytes, signed) ==
    LET Value[k \in 1..Len(bytes)] ==
            IF k > 1 THEN Value[k - 1] * 256 + bytes[k]
            ELSE IF signed /\ bytes[1] >= 128 THEN bytes[1] - 256 ELSE bytes[1]
    IN  Value[Len(bytes)]

-----------------------------------------------------------------------------
(* protocol.py. *)

(* The widths of the format characters of struct.                          *)
Width == [c \in {"Q", "q", "I", "B"} |->
             IF c = "B" THEN 1 ELSE IF c = "I" THEN QuantityBytes ELSE LongBytes]

NEW_ORDER_FMT == <<"Q", "B", "B", "q", "I">>
CANCEL_FMT    == <<"Q">>
FILL_FMT      == <<"Q", "Q", "B", "q", "I", "Q">>
ACK_FMT       == <<"Q", "B", "B">>

Formats == {NEW_ORDER_FMT, CANCEL_FMT, FILL_FMT, ACK_FMT}

(* Where the fields of a format begin, and where the last one ends, which  *)
(* is struct.calcsize.                                                     *)
Offsets(fmt) ==
    LET offset[i \in 0..Len(fmt)] == IF i = 0 THEN 0 ELSE offset[i - 1] + Width[fmt[i]]
    IN  offset

FieldStart == [fmt \in Formats |-> [i \in 1..Len(fmt) + 1 |-> Offsets(fmt)[i - 1]]]

calcsize(fmt) == FieldStart[fmt][Len(fmt) + 1]

pack(fmt, values) ==
    LET Packed[i \in 0..Len(fmt)] ==
            IF i = 0 THEN <<>> ELSE Packed[i - 1] \o BigEndian(values[i], Width[fmt[i]])
    IN  Packed[Len(fmt)]

unpack(fmt, payload) ==
    LET start == FieldStart[fmt]
    IN  [i \in 1..Len(fmt) |->
            FromBytes(SubSeq(payload, start[i] + 1, start[i + 1]), fmt[i] = "q")]

(* PAYLOAD_SIZE; a tag outside its domain has no size.                     *)
PAYLOAD_SIZE == [tag \in {NEW_ORDER, CANCEL, SUBSCRIBE_FILLS, FILL, ACK} |->
                    CASE tag = NEW_ORDER       -> calcsize(NEW_ORDER_FMT)
                      [] tag = CANCEL          -> calcsize(CANCEL_FMT)
                      [] tag = SUBSCRIBE_FILLS -> 0
                      [] tag = FILL            -> calcsize(FILL_FMT)
                      [] tag = ACK             -> calcsize(ACK_FMT)]

encode_new_order(msg) ==
    << NEW_ORDER >> \o pack(NEW_ORDER_FMT, << msg.client_order_id, SideCode(msg.side),
                                TypeCode(msg.order_type), msg.price_ticks, msg.quantity >>)

encode_cancel(msg) == << CANCEL >> \o pack(CANCEL_FMT, << msg.client_order_id >>)

(* Slip: the two ids in the order of the older message.                    *)
decode_fill_swapped(payload) ==
    LET f == unpack(FILL_FMT, payload)
    IN  [tag |-> "Fill", resting_order_id |-> f[2], incoming_order_id |-> f[1],
         resting_side |-> SideName(f[3]), price_ticks |-> f[4], quantity |-> f[5],
         timestamp |-> f[6]]

decode_fill(payload) ==
    LET f == unpack(FILL_FMT, payload)
    IN  [tag |-> "Fill", resting_order_id |-> f[1], incoming_order_id |-> f[2],
         resting_side |-> SideName(f[3]), price_ticks |-> f[4], quantity |-> f[5],
         timestamp |-> f[6]]

decode_ack(payload) ==
    LET f == unpack(ACK_FMT, payload)
    IN  [tag |-> "Ack", client_order_id |-> f[1], request_type |-> f[2], status |-> f[3]]

decode_event(tag, payload) == IF tag = FILL THEN decode_fill(payload) ELSE decode_ack(payload)

-----------------------------------------------------------------------------
(* protocol.cpp. *)

put_u8(v)  == BigEndian(v, 1)
put_u32(v) == BigEndian(v, QuantityBytes)
put_u64(v) == BigEndian(v, LongBytes)

(* The server's payload_size, from the k...MsgSize constants.              *)
kMsgSize == [tag \in {NEW_ORDER, CANCEL, SUBSCRIBE_FILLS, FILL, ACK} |->
                CASE tag = NEW_ORDER -> LongBytes + 1 + 1 + LongBytes + QuantityBytes
                  [] tag = CANCEL    -> LongBytes
                  [] tag = SUBSCRIBE_FILLS -> 0
                  [] tag = FILL      -> LongBytes + LongBytes + 1 + LongBytes + QuantityBytes + LongBytes
                  [] tag = ACK       -> LongBytes + 1 + 1]

(* get_u64 at the n-th byte of a payload, counting from zero.              *)
get_u64(in, n) == FromBytes(SubSeq(in, n + 1, n + LongBytes), FALSE)

decode_client_order(in) ==
    LET L == LongBytes
    IN  [client_order_id |-> get_u64(in, 0),
         side            |-> SideName(in[L + 1]),
         order_type      |-> TypeName(in[L + 2]),
         price_ticks     |-> FromBytes(SubSeq(in, L + 3, 2 * L + 2), TRUE),
         quantity        |-> FromBytes(SubSeq(in, 2 * L + 3, 2 * L + 2 + QuantityBytes), FALSE)]

decode_cancel(in) == [client_order_id |-> get_u64(in, 0)]

(* send_fill and send_ack: tag and payload.                                *)
encode_fill(msg) ==
    << FILL >> \o put_u64(msg.resting_order_id) \o put_u64(msg.incoming_order_id)
       \o put_u8(SideCode(msg.resting_side)) \o put_u64(msg.price_ticks)
       \o put_u32(msg.quantity) \o put_u64(msg.timestamp)

encode_ack(msg) ==
    << ACK >> \o put_u64(msg.client_order_id) \o put_u8(msg.request_type) \o put_u8(msg.status)

-----------------------------------------------------------------------------
(* The whole messages a stream begins with, each with its tag.             *)
Frames(stream) ==
    LET From[i \in 1..Len(stream) + 1] ==
            IF i > Len(stream) \/ stream[i] \notin DOMAIN kMsgSize THEN <<>>
            ELSE LET end == i + kMsgSize[stream[i]]
                 IN  IF end > Len(stream) THEN <<>>
                     ELSE << SubSeq(stream, i, end) >> \o From[end + 1]
    IN  From[1]
=============================================================================
