-------------------------- MODULE MCItchParser --------------------------
(* Small files for TLC: one or two messages, or three of the short ones,   *)
(* cut after any byte.                                                     *)
EXTENDS ItchParser

Word(n) == <<n \div Base, n % Base>>

Message(type, payload) == Word(Len(payload) + 1) \o <<type>> \o payload

(* stock_locate, tracking_number, timestamp, order_ref_num, indicator,     *)
(* shares, stock, price: no two bytes of a number alike.                   *)
AddPayload(side, stock) ==
    <<0, 1, 0, 1>> \o <<0, 1, 2, 3, 4, 5, 6, 7>> \o <<7, 6, 5, 4, 3, 2, 1, 0>>
        \o <<side>> \o <<1, 2, 3, 4>> \o stock \o <<7, 5, 3, 1>>

Padded == <<4, 5, SPACE, SPACE, SPACE, SPACE, SPACE, SPACE>>
Full   == <<4, 5, 6, 7, 4, 5, 6, 7>>

Short == {Message(ADD, SubSeq(AddPayload(BUY, Padded), 1, 35)),
          Message(6, <<1>>), Message(6, <<>>), <<0, 0>>}

Messages == Short \union {Message(ADD, AddPayload(BUY, Padded)),
                     Message(ADD, AddPayload(5, Full) \o <<1>>)}

Uncut == Messages \union {m \o n : m, n \in Messages} \union {m \o n \o o : m, n, o \in Short}

MCFile == UNION {{SubSeq(f, 1, n) : n \in 0..Len(f)} : f \in Uncut}
============================================================================
