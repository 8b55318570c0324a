--------------------------- MODULE ItchParser ---------------------------
(***************************************************************************)
(* The reader of ITCH 5.0 files (src/src/replay/itch_parser.h): a file is  *)
(* a sequence of bytes, parse_file a loop over messages with a two-byte    *)
(* length in front.                                                        *)
(*                                                                         *)
(* A byte is a digit 0..Base-1 (Base = 256 in the code).  The fields keep  *)
(* their width in bytes, so a 64-bit number is one of Base^8; what is      *)
(* read into memory is little-endian, what the file holds is big-endian.   *)
(* Prices stay integers: the code divides them by 10000.                   *)
(***************************************************************************)
EXTENDS Integers, Sequences, FiniteSets, FiniteSetsExt, SequencesExt

CONSTANTS
    Base,               \* the number of values of a byte
    ADD, BUY, SPACE,    \* the bytes 'A', 'B' and ' '; NUL is 0
    File,               \* the files that may be parsed
    Leftover            \* filled_qty of the objects global_order_pool hands out

Byte == 0..(Base - 1)

ASSUME BaseAssumption == Base \in Nat \ {0, 1}
ASSUME FileAssumption == File \subseteq Seq(Byte)

VARIABLES
    file,     \* the bytes of the file
    pos,      \* bytes read so far
    result,   \* the orders parsed so far
    status    \* "reading", "done", or "threw" when an exception left the loop

itchVars == <<file, pos, result, status>>

----------------------------------------------------------------------------
(* Numbers, of eight bytes at most.  Weight[i] is what a one in byte i is  *)
(* worth.                                                                  *)
Weight[i \in 0..7] == IF i = 0 THEN 1 ELSE Base * Weight[i - 1]

(* What x86 reads from the bytes bs. *)
Native(bs) ==
    SumFunctionOnSet([i \in DOMAIN bs |-> bs[i] * Weight[i - 1]], DOMAIN bs)

(* The swap leaves the two middle bytes of four where they are. *)
Mutant_bswap(x, n) ==
    LET place(i) == IF n = 4 /\ i \in {1, 2} THEN i ELSE n - 1 - i
    IN  SumFunctionOnSet([i \in 0..(n - 1) |->
                ((x \div Weight[i]) % Base) * Weight[place(i)]], 0..(n - 1))

(* bswap16, bswap32, bswap64: byte i of n goes to place n - 1 - i. *)
bswap(x, n) ==
    SumFunctionOnSet([i \in 0..(n - 1) |->
            ((x \div Weight[i]) % Base) * Weight[n - 1 - i]], 0..(n - 1))

Number(bs) == bswap(Native(bs), Len(bs))

----------------------------------------------------------------------------
(* struct ItchAddOrder: the payload without the type byte. *)
AddOrderSize == 37

ParsedSymbol(stock) ==
    LET stops == {i \in DOMAIN stock : stock[i] \in {SPACE, 0}}
        n     == IF stops = {} THEN Len(stock) ELSE Min(stops) - 1
    IN  SubSeq(stock, 1, Min({n, 7}))     \* set_symbol keeps seven characters

(* The order made from the payload p of an Add message.  filled_qty (and   *)
(* tif) are not assigned: they are what the pooled object last held.       *)
ParsedOrder(p, filled_qty) ==
    [timestamp_ns |-> Number(SubSeq(p, 5, 12)),
     order_id     |-> Number(SubSeq(p, 13, 20)),
     side         |-> IF p[21] = BUY THEN "BUY" ELSE "SELL",
     quantity     |-> Number(SubSeq(p, 22, 25)),
     symbol       |-> ParsedSymbol(SubSeq(p, 26, 33)),
     price        |-> Number(SubSeq(p, 34, 37)),
     filled_qty   |-> filled_qty]

----------------------------------------------------------------------------
Rest == Len(file) - pos

(* The length in front of the next message. *)
MsgLength == Number(SubSeq(file, pos + 1, pos + 2))

MsgType == file[pos + 3]

Payload == SubSeq(file, pos + 4, pos + 2 + MsgLength)

(* peek is at the end, or one of the three reads comes short: the loop is  *)
(* over.                                                                   *)
Stops == Rest >= 3 => MsgLength > 0 /\ Rest < MsgLength + 2

Stop ==
    /\ status = "reading"
    /\ Stops
    /\ status' = "done"
    /\ UNCHANGED <<file, pos, result>>

(* A length of 0: std::vector<char>(size_t(-1)) throws, and the orders     *)
(* parsed so far go with the stack frame.                                  *)
EmptyMessage ==
    /\ status = "reading"
    /\ ~Stops
    /\ MsgLength = 0
    /\ status' = "threw"
    /\ result' = <<>>
    /\ UNCHANGED <<file, pos>>

(* An Add message that is long enough. *)
AddMessage ==
    /\ status = "reading"
    /\ ~Stops
    /\ MsgLength > 0
    /\ MsgType = ADD
    /\ Len(Payload) >= AddOrderSize
    /\ \E f \in Leftover : result' = Append(result, ParsedOrder(Payload, f))
    /\ pos' = pos + 2 + MsgLength
    /\ UNCHANGED <<file, status>>

(* Any other type, or an Add message that is too short. *)
SkipMessage ==
    /\ status = "reading"
    /\ ~Stops
    /\ MsgLength > 0
    /\ MsgType = ADD => Len(Payload) < AddOrderSize
    /\ pos' = pos + 2 + MsgLength
    /\ UNCHANGED <<file, result, status>>

----------------------------------------------------------------------------
ItchInit ==
    /\ file \in File
    /\ pos = 0
    /\ result = <<>>
    /\ status = "reading"

ItchNext == Stop \/ EmptyMessage \/ AddMessage \/ SkipMessage

ItchSpec == ItchInit /\ [][ItchNext]_itchVars

----------------------------------------------------------------------------
(* What a file means, without the parser's reads and swaps. *)

BigEndian(bs) == FoldLeft(LAMBDA n, b : n * Base + b, 0, bs)

LengthAt(p) == BigEndian(SubSeq(file, p + 1, p + 2))

(* Where the complete messages from byte p on begin; one of length 0 is    *)
(* the last.                                                               *)
StartsFrom[p \in 0..Len(file)] ==
    IF p + 3 > Len(file) \/ p + 2 + LengthAt(p) > Len(file) THEN {}
    ELSE {p} \union IF LengthAt(p) = 0 THEN {} ELSE StartsFrom[p + 2 + LengthAt(p)]

MessageStarts == StartsFrom[0]

AddsOfLength(n) == {p \in MessageStarts : file[p + 3] = ADD /\ LengthAt(p) >= n}

Field(p, first, last) == SubSeq(file, p + 3 + first, p + 3 + last)

(* Order r is what the Add message at p says. *)
Says(p, r) ==
    LET stock == Field(p, 26, 33)
    IN  /\ r.timestamp_ns = BigEndian(Field(p, 5, 12))
        /\ r.order_id = BigEndian(Field(p, 13, 20))
        /\ r.side = IF Field(p, 21, 21) = <<BUY>> THEN "BUY" ELSE "SELL"
        /\ r.quantity = BigEndian(Field(p, 22, 25))
        /\ r.price = BigEndian(Field(p, 34, 37))
        /\ IsPrefix(r.symbol, stock)
        /\ ToSet(r.symbol) \intersect {SPACE, 0} = {}
        /\ Len(r.symbol) < 7 => stock[Len(r.symbol) + 1] \in {SPACE, 0}

(* The orders parse_file returns are the complete Add messages of the      *)
(* file, in the order of the file, with their big-endian fields: nothing   *)
(* of a message the end of the file cuts off, nothing twice, and no        *)
(* message missed because another type or a short message precedes it.     *)
(* An exception means the file holds a message of length 0.                *)
ParsesCompleteAdds ==
    /\ status = "done" =>
          LET adds     == AddsOfLength(AddOrderSize + 1)
              place(p) == Cardinality({q \in adds : q <= p})
          IN  /\ Len(result) = Cardinality(adds)
              /\ \A p \in adds : Says(p, result[place(p)])
    /\ status # "reading" =>
          (status = "threw" <=> \E p \in MessageStarts : LengthAt(p) = 0)

(* itch_parser.h of the Add message: "Total length: 36 bytes".  Every      *)
(* complete Add message of that length is among the orders returned.       *)
AddsOf36BytesParsed ==
    status = "done" => Len(result) = Cardinality(AddsOfLength(36))
============================================================================
