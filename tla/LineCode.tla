------------------------------ MODULE LineCode ------------------------------
(***************************************************************************)
(* How the fast loaders put a byte on the lines: the routines of            *)
(* lpc17xx/llfl-*.c and the byte routines of fl-*.c, each against the       *)
(* computer's side of the same transfer.                                    *)
(*                                                                         *)
(* Drive and computer run programs of the same few steps: set lines, wait   *)
(* for a level, put bits on CLOCK and DATA, get bits from them.  Where a    *)
(* transfer is timed, Tick stands for the time both sides let pass: neither *)
(* goes on before the other has done its step.  (An edge the capture unit   *)
(* waits for is a level the computer does not have before.)                 *)
(*                                                                         *)
(* A byte is the function of its eight bits.  The computer's programs are   *)
(* not in the repository: the bits they expect are those that the AVR       *)
(* version of the same routine sends and receives.                          *)
(***************************************************************************)
EXTENDS Integers, Sequences, SequencesExt

CONSTANT Routines       \* the routines of this instance

Bit == 0 .. 7

\* Each bit has another value in one of these bytes: a transposed or inverted
\* bit changes at least one of them.
LineBytes == {[i \in Bit |-> 0], [i \in Bit |-> i % 2],
              [i \in Bit |-> (i \div 2) % 2], [i \in Bit |-> i \div 4]}

VARIABLES
    routine,    \* the routine that runs, or "none"
    byte, eoi,  \* what is to be transferred
    prog,       \* what drive and computer have yet to do
    lev,        \* the levels they give to CLOCK and DATA
    port,       \* the parallel port
    lineatn,    \* level of ATN
    got,        \* bits each of them has got
    mark,       \* end mark each of them has got
    irqs,       \* interrupts are enabled
    result,     \* "none", "busy", "leaving" for exit, "byte" or "abort"
    gone        \* the computer has pulled ATN and does something else

linevars == <<routine, byte, eoi, prog, lev, port, lineatn, got, mark, irqs, result, gone>>

---------------------------------------------------------------------------
(* Steps. *)

\* Line l gets level v.
Set(l, v) == [op |-> "set", line |-> l, level |-> v]
SetBoth(c, d) == <<Set("clock", c), Set("data", d)>>
Atn(v) == [op |-> "atn", level |-> v]

\* Wait for a level; if ATN is low: "stay", "go" on, or "exit".
Wait_(l, v, atn) == [op |-> "wait", line |-> l, level |-> v, atn |-> atn]

\* Time passes on both sides.
Tick == [op |-> "tick"]

\* A start signal; what follows is timed.
Start(l, v, atn) == <<Wait_(l, v, atn), Tick>>

\* if (!IEC_ATN) goto exit.
IfAtn == [op |-> "ifatn"]
Cli == [op |-> "irqs", on |-> FALSE]
Sei == [op |-> "irqs", on |-> TRUE]

\* Bits c and d go to, or come from, CLOCK and DATA, those in x inverted.
PutBits(c, d, x) == [op |-> "put", clock |-> c, data |-> d, inv |-> x]
GetBits(c, d, x) == [op |-> "get", clock |-> c, data |-> d, inv |-> x]

\* One bit on or from DATA.
NoBit == 8
PutBit(d, x) == PutBits(NoBit, d, x)
GetBit(d, x) == GetBits(NoBit, d, x)

\* A bit is 1 if DATA is low and 0 if CLOCK is low; it is acknowledged on the
\* other line.
PutByLine(d) == [op |-> "put_by_line", data |-> d]
GetByLine(d) == [op |-> "get_by_line", data |-> d]
WaitBit == [op |-> "wait_bit"]
WaitNotBoth == [op |-> "wait_not_both"]
WaitAck == [op |-> "wait_ack"]

ParWrite == [op |-> "par_write"]
ParRead == [op |-> "par_read"]

\* The end mark: CLOCK high and DATA low, or else the opposite.
PutEoi == [op |-> "put_eoi"]
GetEoi == [op |-> "get_eoi"]

\* If the other side lets a timeout pass, which is its end mark, these steps.
IfLate(s) == [op |-> "if_late", steps |-> s]
IfEoi(s) == [op |-> "if_eoi", steps |-> s]

Each(n, F(_)) == FlattenSeq([k \in 1 .. n |-> F(k)])

---------------------------------------------------------------------------
(* Timed transfers of two bits at a time. *)

Table(c, d, x) == [clock |-> c, data |-> d, inv |-> x]

Up == <<0, 2, 4, 6>>
UpOdd == <<1, 3, 5, 7>>
Down76 == <<7, 6, 3, 2>>
Down54 == <<5, 4, 1, 0>>
All == Bit

turbodisk_byte_def == Table(<<7, 5, 3, 1>>, <<6, 4, 2, 0>>, {})
fc3_get_def == Table(Down76, Down54, All)
fc3_oldfreeze_def == Table(Up, UpOdd, All)
uload3_get_def == Table(Down76, Down54, All)
uload3_send_def == Table(Up, UpOdd, {})
epyxcart_send_def == Table(Down76, Down54, All)
geos_get_def == Table(<<4, 6, 3, 2>>, <<5, 7, 1, 0>>, All)

geos_send_def == Table(<<3, 2, 4, 6>>, <<1, 0, 5, 7>>, 0 .. 3)
geos_1581_21_send_def == Table(Up, UpOdd, {})
wheels_1mhz_get_def == Table(Down76, Down54, All)
wheels44_2mhz_get_def == Table(Up, UpOdd, All)
wheels_1mhz_send_def == Table(<<3, 2, 7, 6>>, <<1, 0, 5, 4>>, All)
wheels44_2mhz_send_def == Table(Up, UpOdd, {})
ar6_1581_send_def == Table(Up, UpOdd, {})
ar6_1581p_get_def == Table(Down76, Down54, All)
n0sdos_send_def == Table(Up, UpOdd, All)
jiffy_receive_def == Table(<<4, 6, 3, 2>>, <<5, 7, 1, 0>>, All)
jiffy_send_def == Table(Up, UpOdd, {})

llfl_generic_load_2bit(t) ==
    Each(4, LAMBDA k : <<PutBits(t.clock[k], t.data[k], t.inv), Tick, Tick>>)

llfl_generic_save_2bit(t) ==
    Each(4, LAMBDA k : <<Tick, GetBits(t.clock[k], t.data[k], t.inv), Tick>>)

---------------------------------------------------------------------------
(* The routines: the drive's steps, those behind the label exit, the        *)
(* computer's, and the levels both have on CLOCK and DATA at the start.     *)

Start_(dc, dd, hc, hd) == [drive |-> [clock |-> dc, data |-> dd], host |-> [clock |-> hc, data |-> hd]]

turbodisk_byte ==
    [start |-> Start_(0, 1, 1, 0),
     drive |-> <<Wait_("data", 0, "stay"), Set("clock", 1)>> \o Start("data", 1, "stay")
               \o llfl_generic_load_2bit(turbodisk_byte_def) \o SetBoth(0, 1),
     exit  |-> <<>>,
     host  |-> <<Wait_("clock", 1, "stay"), Set("data", 1), Tick>>
               \o llfl_generic_save_2bit(Table(<<7, 5, 3, 1>>, <<6, 4, 2, 0>>, {}))]

\* One byte of the block of four.
fastloader_fc3_send_block ==
    [start |-> Start_(1, 1, 1, 1),
     drive |-> <<Cli, Set("clock", 0), Tick>>
               \o llfl_generic_load_2bit(Table(Up, UpOdd, {})) \o SetBoth(1, 1) \o <<Sei>>,
     exit  |-> <<>>,
     host  |-> <<Wait_("clock", 0, "stay"), Tick>> \o llfl_generic_save_2bit(Table(Up, UpOdd, {}))]

fc3_get_byte ==
    [start |-> Start_(1, 0, 0, 1),
     drive |-> <<Cli, Set("data", 1)>> \o Start("clock", 1, "stay")
               \o llfl_generic_save_2bit(fc3_get_def) \o <<Set("data", 0), Sei>>,
     exit  |-> <<>>,
     host  |-> <<Wait_("data", 1, "stay"), Set("clock", 1), Tick>>
               \o llfl_generic_load_2bit(Table(Down76, Down54, All))]

fc3_oldfreeze_send ==
    [start |-> Start_(1, 0, 0, 1),
     drive |-> <<Cli>> \o SetBoth(1, 1) \o <<IfAtn>> \o Start("clock", 1, "exit") \o <<IfAtn>>
               \o llfl_generic_load_2bit(fc3_oldfreeze_def) \o SetBoth(1, 0) \o <<Sei, IfAtn>>,
     exit  |-> <<Sei>>,
     host  |-> <<Wait_("data", 1, "stay"), Set("clock", 1), Tick>>
               \o llfl_generic_save_2bit(Table(Up, UpOdd, All))]

\* The first wait is before interrupts are off; the second ignores ATN.
uload3_get_byte ==
    [start |-> Start_(1, 1, 1, 1),
     drive |-> <<Set("clock", 0), Wait_("data", 0, "exit"), IfAtn, Cli, Set("clock", 1)>>
               \o Start("data", 1, "stay") \o llfl_generic_save_2bit(uload3_get_def) \o <<Sei>>,
     exit  |-> <<>>,
     host  |-> <<Wait_("clock", 0, "stay"), Set("data", 0),
                 Wait_("clock", 1, "stay"), Set("data", 1), Tick>>
               \o llfl_generic_load_2bit(Table(Down76, Down54, All))]

uload3_send_byte ==
    [start |-> Start_(1, 1, 1, 1),
     drive |-> <<Cli, Set("data", 0), Wait_("clock", 0, "exit"), IfAtn, Set("data", 1)>>
               \o Start("clock", 1, "exit") \o <<IfAtn>>
               \o llfl_generic_load_2bit(uload3_send_def) \o SetBoth(1, 1) \o <<Sei>>,
     exit  |-> <<Sei>>,
     host  |-> <<Wait_("data", 0, "stay"), Set("clock", 0),
                 Wait_("data", 1, "stay"), Set("clock", 1), Tick>>
               \o llfl_generic_save_2bit(Table(Up, UpOdd, {}))]

\* Interrupts stay disabled: the routine ends with disable_interrupts().
epyxcart_send_byte ==
    [start |-> Start_(0, 1, 1, 0),
     drive |-> <<Cli>> \o SetBoth(1, 1) \o Start("data", 1, "exit") \o <<IfAtn>>
               \o llfl_generic_load_2bit(epyxcart_send_def) \o <<Cli>>,
     exit  |-> <<Cli>>,
     host  |-> <<Wait_("clock", 1, "stay"), Set("data", 1), Tick>>
               \o llfl_generic_save_2bit(Table(Down76, Down54, All))]

\* h is the table of the computer.
geos_get_generic(t, h) ==
    [start |-> Start_(1, 1, 1, 1),
     drive |-> Start("clock", 0, "stay") \o llfl_generic_save_2bit(t),
     exit  |-> <<>>,
     host  |-> <<Set("clock", 0), Tick>> \o llfl_generic_load_2bit(h)]

geos_send_generic(t, h) ==
    [start |-> Start_(1, 0, 1, 1),
     drive |-> SetBoth(1, 1) \o Start("clock", 0, "stay") \o llfl_generic_load_2bit(t),
     exit  |-> <<>>,
     host  |-> <<Set("clock", 0), Tick, Set("clock", 1)>> \o llfl_generic_save_2bit(h)]

geos_get_byte == geos_get_generic(geos_get_def, Table(<<4, 6, 3, 2>>, <<5, 7, 1, 0>>, All))
geos_send_byte == geos_send_generic(geos_send_def, Table(<<3, 2, 4, 6>>, <<1, 0, 5, 7>>, 0 .. 3))
geos_send_byte_1581_21 == geos_send_generic(geos_1581_21_send_def, Table(Up, UpOdd, {}))
wheels_get_byte_1mhz == geos_get_generic(wheels_1mhz_get_def, Table(Down76, Down54, All))
wheels44_get_byte_2mhz == geos_get_generic(wheels44_2mhz_get_def, Table(Up, UpOdd, All))
wheels_send_byte_1mhz ==
    geos_send_generic(wheels_1mhz_send_def, Table(<<3, 2, 7, 6>>, <<1, 0, 5, 4>>, All))
wheels44_send_byte_2mhz == geos_send_generic(wheels44_2mhz_send_def, Table(Up, UpOdd, {}))

ar6_1581_send_byte ==
    [start |-> Start_(0, 1, 1, 0),
     drive |-> <<Cli, Set("clock", 1)>> \o Start("data", 1, "stay")
               \o llfl_generic_load_2bit(ar6_1581_send_def) \o SetBoth(0, 1) \o <<Sei>>,
     exit  |-> <<>>,
     host  |-> <<Wait_("clock", 1, "stay"), Set("data", 1), Tick>>
               \o llfl_generic_save_2bit(Table(Up, UpOdd, {}))]

ar6_1581p_get_byte ==
    [start |-> Start_(0, 1, 1, 1),
     drive |-> <<Cli, Set("clock", 1)>> \o Start("data", 0, "stay") \o Start("data", 1, "stay")
               \o llfl_generic_save_2bit(ar6_1581p_get_def) \o <<Set("clock", 0), Sei>>,
     exit  |-> <<>>,
     host  |-> <<Wait_("clock", 1, "stay"), Set("data", 0), Tick, Set("data", 1), Tick>>
               \o llfl_generic_load_2bit(Table(Down76, Down54, All))]

n0sdos_send_byte ==
    [start |-> Start_(1, 0, 0, 1),
     drive |-> <<Cli>> \o SetBoth(1, 1) \o Start("clock", 1, "stay")
               \o llfl_generic_load_2bit(n0sdos_send_def) \o SetBoth(1, 0) \o <<Sei>>,
     exit  |-> <<>>,
     host  |-> <<Wait_("data", 1, "stay"), Set("clock", 1), Tick>>
               \o llfl_generic_save_2bit(Table(Up, UpOdd, All))]

\* The wait acknowledges ATN with DATA; the caller drops the byte if ATN is low
\* at its end.
jiffy_receive ==
    [start |-> Start_(1, 0, 0, 1),
     drive |-> <<Cli>> \o SetBoth(1, 1) \o Start("clock", 1, "ack")
               \o llfl_generic_save_2bit(jiffy_receive_def)
               \o <<Tick, GetEoi, Set("data", 0), Sei, IfAtn>>,
     exit  |-> <<>>,
     host  |-> <<Wait_("data", 1, "stay"), Set("clock", 1), Tick>>
               \o llfl_generic_load_2bit(Table(<<4, 6, 3, 2>>, <<5, 7, 1, 0>>, All))
               \o <<PutEoi, Tick>>]

\* A start signal and, for single bytes, the end mark and its answer.
jiffy_send(start, end) ==
    [start |-> IF end = <<>> THEN Start_(1, 0, 1, 1) ELSE Start_(0, 1, 1, 0),
     drive |-> <<Cli>> \o SetBoth(1, 1) \o start
               \o llfl_generic_load_2bit(jiffy_send_def) \o end \o <<Sei, IfAtn>>,
     exit  |-> <<>>,
     host  |-> (IF end = <<>> THEN <<Wait_("data", 1, "stay"), Tick, Set("data", 0), Tick, Set("data", 1)>>
                ELSE <<Wait_("clock", 1, "stay"), Set("data", 1), Tick>>)
               \o llfl_generic_save_2bit(Table(Up, UpOdd, {}))
               \o (IF end = <<>> THEN <<>> ELSE <<Tick, GetEoi, Tick, Set("data", 0)>>)]

jiffy_send_single == jiffy_send(Start("data", 1, "go"), <<PutEoi, Tick, Tick, Wait_("data", 0, "go")>>)
jiffy_send_load == jiffy_send(Start("data", 1, "stay") \o Start("data", 0, "go"), <<>>)

---------------------------------------------------------------------------
(* Transfers in which one side waits for the other at every step.           *)

\* Bit k of a byte sent with the highest bit first.
Msb(k) == 8 - k

\* The computer's half: it clocks the bits the drive sends on DATA, or those
\* it sends itself.
ClockedRead(first, F(_)) ==
    Each(8, LAMBDA k : <<Set("clock", IF k % 2 = 1 THEN first ELSE 1 - first), Tick, GetBit(F(k), {})>>)
ClockedSend(F(_)) ==
    Each(8, LAMBDA k : <<PutBit(F(k), All), Set("clock", IF k % 2 = 1 THEN 0 ELSE 1), Tick>>)

mmzak_send_byte ==
    [start |-> Start_(1, 1, 0, 1),
     drive |-> Each(8, LAMBDA k : <<Wait_("clock", k % 2, "stay"), PutBit(Msb(k), {}), Tick>>),
     exit  |-> <<>>,
     host  |-> ClockedRead(1, Msb)]

mmzak_read_byte ==
    [start |-> Start_(1, 1, 1, 1),
     drive |-> Each(8, LAMBDA k : <<Wait_("clock", 1 - (k % 2), "stay"), GetBit(Msb(k), All), Tick>>),
     exit  |-> <<>>,
     host  |-> ClockedSend(Msb)]

Lsb(k) == k - 1

gijoe_send_byte ==
    [start |-> Start_(1, 1, 0, 1),
     drive |-> <<Cli>> \o Each(8, LAMBDA k : <<Wait_("clock", k % 2, "stay"), PutBit(Lsb(k), {}), Tick>>)
               \o <<Sei>>,
     exit  |-> <<>>,
     host  |-> ClockedRead(1, Lsb)]

gijoe_read_byte ==
    [start |-> Start_(1, 1, 1, 1),
     drive |-> Each(8, LAMBDA k : <<Wait_("clock", 1 - (k % 2), "stay"), GetBit(Lsb(k), All), Tick>>),
     exit  |-> <<>>,
     host  |-> ClockedSend(Lsb)]

dreamload_get_byte == mmzak_read_byte

nippon_atn_clock_handshake == <<IfAtn, Wait_("clock", 0, "stay")>>

nippon_read_byte ==
    [start |-> Start_(0, 1, 1, 1),
     drive |-> <<Cli>> \o SetBoth(1, 1)
               \o Each(8, LAMBDA k : nippon_atn_clock_handshake
                                      \o <<GetBit(Lsb(k), All), Tick, Wait_("clock", 1, "stay"), Tick>>)
               \o SetBoth(0, 1) \o <<Sei>>,
     exit  |-> <<Set("clock", 0), Sei>>,
     host  |-> <<Wait_("clock", 1, "stay")>>
               \o Each(8, LAMBDA k : <<PutBit(Lsb(k), All), Set("clock", 0), Tick, Set("clock", 1), Tick>>)]

nippon_send_byte ==
    [start |-> Start_(0, 1, 1, 1),
     drive |-> <<Cli, Set("clock", 1)>>
               \o Each(8, LAMBDA k : nippon_atn_clock_handshake
                                      \o <<PutBit(Lsb(k), {}), Tick, Wait_("clock", 1, "stay"), Tick>>)
               \o SetBoth(0, 1) \o <<Sei>>,
     exit  |-> <<Set("clock", 0), Sei>>,
     host  |-> <<Wait_("clock", 1, "stay")>>
               \o Each(8, LAMBDA k : <<Set("clock", 0), Tick, GetBit(Lsb(k), {}), Set("clock", 1), Tick>>)]

\* The bus is released before the bit or behind it.
getbyte(before, behind) ==
    [start |-> Start_(1, 1, 1, 1),
     drive |-> Each(8, LAMBDA k : before \o <<WaitBit, GetByLine(Lsb(k)), WaitNotBoth>> \o behind),
     exit  |-> <<>>,
     host  |-> Each(8, LAMBDA k : <<Wait_("clock", 1, "stay"), Wait_("data", 1, "stay"),
                                    PutByLine(Lsb(k)), WaitAck>> \o SetBoth(1, 1))]

getbyte_sams == getbyte(SetBoth(1, 1), <<>>)
getbyte_n0sdos == getbyte(<<>>, SetBoth(1, 1))

\* Two bits at each level of ATN, the computer reads them or sends them.
Nibbles == <<<<7, 5>>, <<6, 4>>, <<3, 1>>, <<2, 0>>>>

transmit_byte ==
    [start |-> Start_(0, 0, 1, 1),
     drive |-> Each(4, LAMBDA k : <<Wait_("atn", k % 2, "stay"),
                                    PutBits(Nibbles[k][1], Nibbles[k][2], All), Tick>>),
     exit  |-> <<>>,
     host  |-> Each(4, LAMBDA k : <<Atn(k % 2), Tick, GetBits(Nibbles[k][1], Nibbles[k][2], All)>>)]

dreamload_get_byte_old ==
    [start |-> Start_(1, 1, 1, 1),
     drive |-> Each(4, LAMBDA k : <<Wait_("atn", 1 - (k % 2), "stay"),
                                    GetBits(Nibbles[k][1], Nibbles[k][2], All), Tick>>),
     exit  |-> <<>>,
     host  |-> Each(4, LAMBDA k : <<PutBits(Nibbles[k][1], Nibbles[k][2], All), Atn(1 - (k % 2)), Tick>>)]

dreamload_send_byte ==
    [start |-> Start_(1, 1, 1, 1),
     drive |-> Each(4, LAMBDA k : <<PutBits(2 * k - 2, 2 * k - 1, {}), Tick, Wait_("atn", 1 - (k % 2), "stay")>>),
     exit  |-> <<>>,
     host  |-> Each(4, LAMBDA k : <<Tick, GetBits(2 * k - 2, 2 * k - 1, {}), Atn(1 - (k % 2))>>)]

\* A byte on the parallel port; the sender that is late means the last byte.
dolphin_getc ==
    [start |-> Start_(1, 0, 0, 1),
     drive |-> <<Cli, Wait_("clock", 1, "exit"), Set("data", 1),
                 IfLate(<<Set("data", 0), Tick, Set("data", 1)>>), Wait_("clock", 0, "exit"),
                 ParRead, Set("data", 0), Sei>>,
     exit  |-> <<Sei>>,
     host  |-> <<Set("clock", 1), Wait_("data", 1, "stay"),
                 IfEoi(<<Wait_("data", 0, "stay"), Tick, Wait_("data", 1, "stay")>>),
                 ParWrite, Set("clock", 0), Wait_("data", 0, "stay")>>]

dolphin_putc ==
    [start |-> Start_(0, 1, 1, 0),
     drive |-> <<Set("clock", 1), Wait_("data", 1, "exit"),
                 IfEoi(<<Wait_("data", 0, "exit"), Tick, Wait_("data", 1, "exit")>>),
                 ParWrite, Set("clock", 0), Wait_("data", 0, "exit")>>,
     exit  |-> <<>>,
     host  |-> <<Wait_("clock", 1, "stay"), Set("data", 1),
                 IfLate(<<Set("data", 0), Tick, Set("data", 1)>>), Wait_("clock", 0, "stay"),
                 ParRead, Set("data", 0)>>]

---------------------------------------------------------------------------
(* Actions: p is the drive or the computer. *)

Catalogue ==
    [turbodisk |-> turbodisk_byte, fc3_block |-> fastloader_fc3_send_block, fc3_get |-> fc3_get_byte,
     oldfreeze |-> fc3_oldfreeze_send, uload3_get |-> uload3_get_byte,
     uload3_send |-> uload3_send_byte, epyxcart |-> epyxcart_send_byte,
     geos_get |-> geos_get_byte, geos_send |-> geos_send_byte,
     geos_1581_21 |-> geos_send_byte_1581_21, wheels_get |-> wheels_get_byte_1mhz,
     wheels44_get |-> wheels44_get_byte_2mhz, wheels_send |-> wheels_send_byte_1mhz,
     wheels44_send |-> wheels44_send_byte_2mhz, ar6_send |-> ar6_1581_send_byte,
     ar6_get |-> ar6_1581p_get_byte, n0sdos |-> n0sdos_send_byte,
     jiffy_receive |-> jiffy_receive, jiffy_send |-> jiffy_send_single, jiffy_load |-> jiffy_send_load,
     mmzak_send |-> mmzak_send_byte, mmzak_read |-> mmzak_read_byte,
     gijoe_send |-> gijoe_send_byte, gijoe_read |-> gijoe_read_byte,
     dreamload_get |-> dreamload_get_byte, nippon_read |-> nippon_read_byte,
     nippon_send |-> nippon_send_byte, getbyte_sams |-> getbyte_sams,
     getbyte_n0sdos |-> getbyte_n0sdos, transmit |-> transmit_byte,
     dreamload_old |-> dreamload_get_byte_old, dreamload_send |-> dreamload_send_byte,
     dolphin_getc |-> dolphin_getc, dolphin_putc |-> dolphin_putc]

\* ATN is the clock of these.
AtnClocked == {"transmit", "dreamload_old", "dreamload_send"}

\* The routines that transfer an end mark.
WithMark == {"jiffy_receive", "jiffy_send", "dolphin_getc", "dolphin_putc"}

Party == {"drive", "host"}
NoBits == [i \in Bit |-> 0]
Bus(l) == IF l = "atn" THEN lineatn
          ELSE IF lev.drive[l] = 0 \/ lev.host[l] = 0 THEN 0 ELSE 1

LineInit ==
    /\ routine = "none"
    /\ byte = NoBits /\ eoi = FALSE
    /\ prog = [p \in Party |-> <<>>]
    /\ lev = Start_(1, 1, 1, 1)
    /\ port = NoBits
    /\ lineatn = 1
    /\ got = [p \in Party |-> NoBits]
    /\ mark = [p \in Party |-> FALSE]
    /\ irqs = TRUE
    /\ result = "none"
    /\ gone = FALSE

Transfer(r, v, e) ==
    /\ result = "none"
    /\ r \notin WithMark => ~e
    /\ routine' = r /\ byte' = v /\ eoi' = e
    /\ prog' = [drive |-> Catalogue[r].drive, host |-> Catalogue[r].host]
    /\ lev' = Catalogue[r].start
    /\ lineatn' = IF r = "transmit" THEN 0 ELSE 1
    /\ result' = "busy"
    /\ UNCHANGED <<port, got, mark, irqs, gone>>

At(p, op) == prog[p] # <<>> /\ Head(prog[p]).op = op
Step(p) == Head(prog[p])
Advance(p) == prog' = [prog EXCEPT ![p] = Tail(@)]

\* goto exit, or a return.
Exits == /\ prog' = [prog EXCEPT !.drive = Catalogue[routine].exit]
         /\ result' = "leaving"

\* The level for bit i, and the value of a level.
Level(i, inv) == IF i \in inv THEN 1 - byte[i] ELSE byte[i]
Value(i, inv, l) == IF i \in inv THEN 1 - Bus(l) ELSE Bus(l)

\* Steps that change the levels: a bit by its line is 1 on DATA, 0 on CLOCK, and
\* is acknowledged on the other one.
DriveLines(p) ==
    LET s == Step(p)
        pull(l) == [lev EXCEPT ![p][l] = 0]
    IN  /\ \/ At(p, "set") /\ lev' = [lev EXCEPT ![p][s.line] = s.level]
           \/ At(p, "put") /\ lev' = [lev EXCEPT ![p].data = Level(s.data, s.inv),
                                      ![p].clock = IF s.clock = NoBit THEN @ ELSE Level(s.clock, s.inv)]
           \/ At(p, "put_eoi") /\ lev' = [lev EXCEPT ![p].clock = IF eoi THEN 1 ELSE 0,
                                                     ![p].data = IF eoi THEN 0 ELSE 1]
           \/ At(p, "put_by_line") /\ lev' = pull(IF byte[s.data] = 1 THEN "data" ELSE "clock")
           \/ At(p, "get_by_line") /\ lev' = pull(IF Bus("data") = 1 THEN "data" ELSE "clock")
        /\ got' = IF At(p, "get_by_line") THEN [got EXCEPT ![p][s.data] = 1 - Bus("data")] ELSE got
        /\ Advance(p)
        /\ UNCHANGED <<routine, byte, eoi, port, lineatn, mark, irqs, result, gone>>

\* Steps that read them, and those for the parallel port.  What a timed
\* transfer reads from other traffic is left out.
ReadLines(p) ==
    LET s == Step(p)
        seen(i) == CASE i = s.clock -> Value(i, s.inv, "clock")
                     [] i = s.data  -> Value(i, s.inv, "data")
                     [] OTHER       -> got[p][i]
    IN  /\ \/ At(p, "get") /\ ~gone /\ got' = [got EXCEPT ![p] = [i \in Bit |-> seen(i)]] /\ UNCHANGED <<mark, port>>
           \/ At(p, "get") /\ gone /\ UNCHANGED <<got, mark, port>>
           \/ At(p, "get_eoi") /\ mark' = [mark EXCEPT ![p] = Bus("clock") = 1] /\ UNCHANGED <<got, port>>
           \/ At(p, "par_read") /\ got' = [got EXCEPT ![p] = port] /\ UNCHANGED <<mark, port>>
           \/ At(p, "par_write") /\ port' = byte /\ UNCHANGED <<got, mark>>
        /\ Advance(p)
        /\ UNCHANGED <<routine, byte, eoi, lev, lineatn, irqs, result, gone>>

SetAtn ==
    /\ At("host", "atn")
    /\ lineatn' = Step("host").level
    /\ Advance("host")
    /\ UNCHANGED <<routine, byte, eoi, lev, port, got, mark, irqs, result, gone>>

SetIrqs ==
    /\ At("drive", "irqs")
    /\ irqs' = Step("drive").on
    /\ Advance("drive")
    /\ UNCHANGED <<routine, byte, eoi, lev, port, lineatn, got, mark, result, gone>>

\* llfl_wait_clock, llfl_wait_data and the loops on a line.
WaitLine(p) ==
    /\ At(p, "wait")
    /\ \/ /\ Bus(Step(p).line) = Step(p).level
          /\ Advance(p)
          /\ UNCHANGED <<lev, result>>
       \/ /\ p = "drive" /\ lineatn = 0 /\ Step(p).atn = "exit"
          /\ Exits
          /\ UNCHANGED lev
       \/ /\ p = "drive" /\ lineatn = 0 /\ Step(p).atn = "go"
          /\ Advance(p)
          /\ UNCHANGED <<lev, result>>
       \/ /\ p = "drive" /\ lineatn = 0 /\ Step(p).atn = "ack"
          /\ lev' = [lev EXCEPT !.drive.data = 0]
          /\ UNCHANGED <<prog, result>>
    /\ UNCHANGED <<routine, byte, eoi, port, lineatn, got, mark, irqs, gone>>

TestAtnLine ==
    /\ At("drive", "ifatn")
    /\ \/ lineatn = 0 /\ Exits
       \/ lineatn = 1 /\ Advance("drive") /\ UNCHANGED result
    /\ UNCHANGED <<routine, byte, eoi, lev, port, lineatn, got, mark, irqs, gone>>

\* Time passes for both, or for the drive alone if nobody is there.
TimePasses ==
    /\ At("drive", "tick")
    /\ \/ At("host", "tick") /\ prog' = [p \in Party |-> Tail(prog[p])]
       \/ gone /\ Advance("drive")
    /\ UNCHANGED <<routine, byte, eoi, lev, port, lineatn, got, mark, irqs, result, gone>>

\* Mistake: ATN is not looked at while the computer's answer is awaited.
WaitBits_unheard ==
    LET both(v) == Bus("clock") = v /\ Bus("data") = v
    IN  /\ \/ At("drive", "wait_bit") /\ ~both(1)
           \/ At("drive", "wait_not_both") /\ ~both(0)
        /\ Advance("drive")
        /\ UNCHANGED <<routine, byte, eoi, lev, port, lineatn, got, mark, irqs, result, gone>>

\* The waits of getbyte, and the computer's for the acknowledgement.
WaitBits ==
    LET both(v) == Bus("clock") = v /\ Bus("data") = v
    IN  /\ \/ At("drive", "wait_bit") /\ (lineatn = 0 \/ ~both(1))
           \/ At("drive", "wait_not_both") /\ (lineatn = 0 \/ ~both(0))
        /\ \/ lineatn = 0 /\ Exits
           \/ lineatn = 1 /\ Advance("drive") /\ UNCHANGED result
        /\ UNCHANGED <<routine, byte, eoi, lev, port, lineatn, got, mark, irqs, gone>>

WaitAcknowledge ==
    /\ At("host", "wait_ack")
    /\ Bus("clock") = 0 /\ Bus("data") = 0
    /\ Advance("host")
    /\ UNCHANGED <<routine, byte, eoi, lev, port, lineatn, got, mark, irqs, result, gone>>

SendsMark(p) ==
    /\ At(p, "if_eoi")
    /\ prog' = [prog EXCEPT ![p] = (IF eoi THEN Step(p).steps ELSE <<>>) \o Tail(@)]
    /\ UNCHANGED <<routine, byte, eoi, lev, port, lineatn, got, mark, irqs, result, gone>>

\* DolphinDOS: the sender of the last byte q waits for DATA to become low.
HearsMark(p, q) ==
    LET late == At(q, "wait") /\ Step(q).line = "data" /\ Step(q).level = 0
                /\ eoi /\ Bus("data") = 1 /\ Bus("clock") = 1
    IN  /\ At(p, "if_late")
        /\ \/ /\ late /\ lineatn = 1
              /\ prog' = [prog EXCEPT ![p] = Step(p).steps \o Tail(@)]
              /\ mark' = [mark EXCEPT ![p] = TRUE]
              /\ UNCHANGED result
           \/ /\ ~late /\ Bus("clock") = 0 /\ lineatn = 1
              /\ Advance(p)
              /\ UNCHANGED <<mark, result>>
           \/ /\ p = "drive" /\ lineatn = 0
              /\ Exits
              /\ UNCHANGED mark
        /\ UNCHANGED <<routine, byte, eoi, lev, port, lineatn, got, irqs, gone>>

\* The routine returns.
ReturnByte ==
    /\ result \in {"busy", "leaving"} /\ prog.drive = <<>>
    /\ prog.host = <<>> \/ result = "leaving"
    /\ result' = IF result = "leaving" THEN "abort" ELSE "byte"
    /\ UNCHANGED <<routine, byte, eoi, prog, lev, port, lineatn, got, mark, irqs, gone>>

\* The computer pulls ATN, its program has ended; others use the lines.
HostPullsAtn ==
    /\ result = "busy" /\ routine \notin AtnClocked /\ ~gone
    /\ gone' = TRUE
    /\ lineatn' = 0
    /\ prog' = [prog EXCEPT !.host = <<>>]
    /\ lev' = [lev EXCEPT !.host = [clock |-> 1, data |-> 1]]
    /\ UNCHANGED <<routine, byte, eoi, port, got, mark, irqs, result>>

OtherTraffic(l) ==
    /\ gone /\ result = "busy"
    /\ lev' = [lev EXCEPT !.host[l] = 1 - @]
    /\ UNCHANGED <<routine, byte, eoi, prog, port, lineatn, got, mark, irqs, result, gone>>

LineStep ==
    /\ routine # "none"
    /\ \/ \E p \in Party : DriveLines(p) \/ ReadLines(p) \/ WaitLine(p) \/ SendsMark(p)
       \/ HearsMark("drive", "host") \/ HearsMark("host", "drive")
       \/ SetAtn \/ SetIrqs \/ TestAtnLine \/ TimePasses \/ WaitBits \/ WaitAcknowledge \/ ReturnByte

LineNext ==
    \/ \E r \in Routines, v \in LineBytes, e \in BOOLEAN : Transfer(r, v, e)
    \/ LineStep
    \/ HostPullsAtn
    \/ \E l \in {"clock", "data"} : OtherTraffic(l)

\* Neither side stops in the middle of a byte unless it waits.
LineFairness == WF_linevars(LineStep)

---------------------------------------------------------------------------
(* Properties. *)

\* The receiver gets the byte that was sent, every bit of it, and the end mark,
\* for each of the protocols and however the two sides interleave.
ByteIntact ==
    (result = "byte" /\ ~gone)
    => \/ got.drive = byte /\ mark.drive = eoi
       \/ got.host = byte /\ mark.host = eoi

\* A byte that getbyte returns is the computer's, even if the computer pulls ATN
\* in the middle of it and the lines carry other traffic.
NoForeignByte ==
    (result = "byte" /\ routine \in {"getbyte_sams", "getbyte_n0sdos"}) => got.drive = byte

\* Whichever way a routine is left, interrupts are enabled again; Epyx FastLoad
\* leaves them disabled.
InterruptsBack == result \in {"byte", "abort"} => irqs = (routine # "epyxcart")

\* The routines in which ATN ends every wait.
LeavesOnAtn == {"fc3_block", "oldfreeze", "uload3_send", "epyxcart", "getbyte_sams", "getbyte_n0sdos",
                "jiffy_send", "dolphin_getc", "dolphin_putc"}

\* They return after the computer has pulled ATN, whatever happens on the lines.
ReturnsOnAtn == (gone /\ routine \in LeavesOnAtn) ~> (result \in {"byte", "abort"})

\* Without ATN every transfer comes to its end.
TransferEnds == (result = "busy") ~> (gone \/ result = "byte")

\* A byte that a routine of the low-level loaders returns or sends is the one
\* on the lines, a byte that ATN cut off is not returned as data, and interrupts
\* are enabled again on every way out.
LinesRight == ByteIntact /\ NoForeignByte /\ InterruptsBack
=============================================================================
