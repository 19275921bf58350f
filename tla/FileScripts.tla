---------------------------- MODULE FileScripts ----------------------------
(***************************************************************************)
(* What the fast loaders that transfer whole files do on the bus, one       *)
(* operator for each handler of fl-*.c.                                      *)
(*                                                                         *)
(* A handler is a script: the steps it takes for one sector of the file     *)
(* (frame), after the last sector (eof), when refill fails (error), when    *)
(* there is no such file (missing) and when it finds ATN low (abort).  A    *)
(* step sends a byte, drives a line, tests ATN or frees the buffer.  The    *)
(* last step of a path says whether the handler returns or waits for the    *)
(* next request.                                                            *)
(*                                                                         *)
(* Bytes have W values and a sector has W bytes, as in the code with        *)
(* W = 256: positions and counts are bytes and wrap.                        *)
(***************************************************************************)
EXTENDS Integers, Sequences, SequencesExt

CONSTANT W      \* values of a byte, and bytes in a sector: 256 in the code

ASSUME WAssumption == W \in Nat /\ W % 4 = 0 /\ W >= 8

Byte == 0 .. W - 1

\* The protocols' special bytes: 0xff, and for G.I.Joe 0xac, 0xc3, 0xf7, 0xfe.
HexFF == W - 1
HexAC == 5
HexC3 == 6
HexF7 == 4
HexFE == W - 2

---------------------------------------------------------------------------
(* Steps. *)

Send(v) == [op |-> "send",  arg |-> v % W]
Clock(x) == [op |-> "clock", arg |-> x]
Data(x) == [op |-> "data",  arg |-> x]

\* Leave for the abort path if ATN is low.
Check == [op |-> "check", arg |-> 0]

\* Skip to the next Check if ATN is low.
Skip == [op |-> "skip",  arg |-> 0]

\* Leave for the abort path if ATN is low or the computer releases CLOCK.
Leave == [op |-> "leave", arg |-> 0]

\* Leave for the abort path if the computer has released DATA.
Stop == [op |-> "stop",  arg |-> 0]
Free == [op |-> "free",  arg |-> 0]

\* The next sector, whatever refill returned.
Onwards == [op |-> "onwards", arg |-> 0]
Again == [op |-> "again", arg |-> 0]
Quit == [op |-> "quit",  arg |-> 0]

\* data[i]; what lies behind the buffer is no byte of the file.
Mem(b, i) == IF i \in Byte THEN b.data[i] ELSE 0

\* data[i] to data[j], and at least data[i]: a do-while loop.
Bytes(b, i, j) == [k \in 1 .. (IF j < i THEN 1 ELSE j - i + 1) |-> Send(Mem(b, i + k - 1))]

Before(step, s) == FlattenSeq([k \in DOMAIN s |-> <<step, s[k]>>])
After(step, s) == FlattenSeq([k \in DOMAIN s |-> <<s[k], step>>])

---------------------------------------------------------------------------
(* The handlers: b is the buffer, n the number of the sector in the file.   *)

load_turbodisk(b, n) ==
    LET p == IF n = 0 THEN b.position + 2 ELSE b.position
    IN  [start   |-> <<Clock(FALSE)>>,
         frame   |-> <<Send(IF b.sendeoi THEN 0 ELSE 1)>>
                     \o (IF n = 0 THEN Bytes(b, b.position, b.position + 1) ELSE <<>>)
                     \o (IF b.sendeoi
                         THEN <<Send(b.lastused - p + 2)>> \o Bytes(b, p, b.lastused)
                         ELSE Bytes(b, p, p + W - 3)),
         eof     |-> <<Free, Clock(TRUE), Quit>>,
         error   |-> <<Send(HexFF), Free, Clock(TRUE), Quit>>,
         missing |-> <<Clock(FALSE), Send(HexFF), Clock(TRUE), Data(TRUE), Quit>>,
         abort   |-> <<Quit>>]

\* Four-byte blocks: a header with the first byte, then the rest and three
\* bytes from behind the buffer.
load_fc3(b, n) ==
    [start   |-> <<>>,
     frame   |-> <<Send(7), Send(n), Send(IF b.sendeoi THEN b.lastused ELSE 0), Send(b.data[2])>>
                 \o FlattenSeq([k \in 1 .. W \div 4 |->
                                   <<Check>> \o Bytes(b, 4 * k - 1, 4 * k + 2)]),
     eof     |-> <<Data(FALSE), Free, Quit>>,
     error   |-> <<Data(FALSE), Clock(FALSE), Free, Quit>>,
     missing |-> <<Data(FALSE), Clock(FALSE), Quit>>,
     abort   |-> <<Free, Quit>>]

load_fc3oldfreeze(b, n) ==
    [start   |-> <<Clock(TRUE), Data(FALSE)>>,
     frame   |-> After(Check, Bytes(b, 2, b.lastused)),
     eof     |-> <<Free, Quit>>,
     error   |-> <<Free, Quit>>,
     missing |-> <<Clock(TRUE), Data(FALSE), Quit>>,
     abort   |-> <<Free, Quit>>]

load_ar6_1581(b, n) ==
    [start   |-> <<Clock(FALSE), Data(TRUE)>>,
     frame   |-> <<Send(b.lastused - 1)>> \o Bytes(b, 2, b.lastused),
     eof     |-> <<Send(0), Clock(TRUE), Data(TRUE), Quit>>,
     error   |-> <<Send(0), Clock(TRUE), Data(TRUE), Quit>>,
     missing |-> <<Quit>>,
     abort   |-> <<Quit>>]

load_eload1(b, n) ==
    [start   |-> <<>>,
     frame   |-> Before(Check, <<Send(b.lastused - 1)>> \o Bytes(b, 2, b.lastused)),
     eof     |-> <<Send(0), Again>>,
     error   |-> <<Send(HexFF), Again>>,
     missing |-> <<Check, Send(HexFF), Quit>>,
     abort   |-> <<Quit>>]

\* epyxcart_send_byte tells that ATN is low: the loop over the bytes ends,
\* and the test behind it leaves the handler if ATN is still low.
load_epyxcart(b, n) ==
    [start   |-> <<Clock(FALSE)>>,
     frame   |-> <<Clock(TRUE), Data(TRUE), Send(b.lastused - 1), Check>>
                 \o After(Skip, Bytes(b, 2, b.lastused)) \o <<Check>>
                 \o (IF b.sendeoi THEN <<>> ELSE <<Clock(FALSE)>>),
     eof     |-> <<Clock(TRUE), Data(TRUE), Free, Quit>>,
     error   |-> <<Clock(TRUE), Data(TRUE), Free, Quit>>,
     missing |-> <<Clock(FALSE), Clock(TRUE), Quit>>,
     abort   |-> <<Clock(TRUE), Data(TRUE), Free, Quit>>]

gijoe_error == <<Send(HexFE), Send(HexFE), Send(HexAC), Send(HexF7)>>

\* Mistake: the escape byte is not doubled in the data.
load_gijoe_escape(b, n) ==
    [start |-> <<Data(TRUE), Clock(FALSE)>>,
     frame |-> <<Clock(TRUE)>> \o Bytes(b, b.position, b.lastused)
               \o (IF b.sendeoi THEN <<Send(HexAC), Send(HexFF)>>
                                ELSE <<Send(HexAC), Send(HexC3), Clock(FALSE)>>),
     eof |-> <<Free, Again>>, error |-> gijoe_error \o <<Free, Again>>,
     missing |-> <<Clock(TRUE)>> \o gijoe_error \o <<Again>>, abort |-> <<Again>>]

load_gijoe(b, n) ==
    [start   |-> <<Data(TRUE), Clock(FALSE)>>,
     frame   |-> <<Clock(TRUE)>>
                 \o FlattenSeq([k \in DOMAIN Bytes(b, b.position, b.lastused) |->
                        LET s == Bytes(b, b.position, b.lastused)[k]
                        IN  IF s.arg = HexAC THEN <<s, s>> ELSE <<s>>])
                 \o (IF b.sendeoi
                     THEN <<Send(HexAC), Send(HexFF)>>
                     ELSE <<Send(HexAC), Send(HexC3), Clock(FALSE)>>),
     eof     |-> <<Free, Again>>,
     error   |-> gijoe_error \o <<Free, Again>>,
     missing |-> <<Data(TRUE), Clock(FALSE), Clock(TRUE)>> \o gijoe_error \o <<Again>>,
     abort   |-> <<Again>>]

\* Sends whole sectors, the last one over and over, until the computer lets
\* go of CLOCK; the result of refill is not looked at.
load_n0sdos_fileread(b, n) ==
    [start   |-> <<Clock(FALSE), Data(FALSE)>>,
     frame   |-> (IF n = 0 THEN <<Send(0)>> ELSE <<>>)
                 \o Before(Leave, Bytes(b, b.position, b.position + W - 3)),
     eof     |-> <<Onwards>>,
     error   |-> <<Onwards>>,
     missing |-> <<Clock(FALSE), Data(FALSE), Send(HexFF), Again>>,
     abort   |-> <<Free, Again>>]

transmit_block(marker, bytes) == <<Send(Len(bytes) + 2), Send(marker)>> \o bytes

\* read_file_by_name, called by load_samsjourney for commands 2 and 0x82.
read_file_by_name(b, n) ==
    [start   |-> <<>>,
     frame   |-> transmit_block(IF b.sendeoi THEN 1 ELSE 0, Bytes(b, 2, b.lastused)),
     eof     |-> <<Free, Again>>,
     error   |-> transmit_block(HexFF, <<>>) \o <<Again>>,
     missing |-> transmit_block(HexFF, <<>>) \o <<Again>>,
     abort   |-> <<Data(TRUE), Clock(TRUE), Quit>>]

\* Whole sectors with their link, last byte first.
load_wheels_s1(b, n) ==
    [start   |-> <<Data(FALSE)>>,
     frame   |-> Reverse(Bytes(b, 0, W - 1)),
     eof     |-> <<Data(TRUE), Clock(TRUE), Free, Quit>>,
     error   |-> <<Data(TRUE), Clock(TRUE), Free, Quit>>,
     missing |-> <<Data(FALSE), Data(TRUE), Clock(TRUE), Quit>>,
     abort   |-> <<Quit>>]

\* The level of DATA is read before a sector's first byte and looked at after it.
load_dolphin(b, n) ==
    [start   |-> <<Clock(FALSE)>>,
     frame   |-> IF b.sendeoi THEN Bytes(b, 2, b.lastused)
                 ELSE <<Stop>> \o Bytes(b, 2, W - 1),
     eof     |-> <<Clock(TRUE), Free, Quit>>,
     error   |-> <<Free, Quit>>,
     missing |-> <<Quit>>,
     abort   |-> <<Send(b.data[2]), Free, Quit>>]
=============================================================================
