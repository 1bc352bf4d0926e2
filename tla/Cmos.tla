-------------------------------- MODULE Cmos --------------------------------
(***************************************************************************)
(* drivers/cmos.c: cmos_init() sets the wall clock from a clock chip that  *)
(* goes on running while its registers are read one by one.                *)
(* cmos_read_tm() reads all of them twice, each time after it has seen the *)
(* bit "update in progress" clear, until the two readings agree; then it   *)
(* converts what it has read (BCD or binary, 12 or 24 hours), and mktime() *)
(* of lib/time.c makes seconds of it.                                      *)
(*                                                                         *)
(* Days pass on the calendar of module Calendar until the machine is       *)
(* switched on; from then on the chip may update its registers between any *)
(* two reads.                                                              *)
(***************************************************************************)
EXTENDS Calendar

CONSTANTS
    BootDays,   \* the days on which the machine is switched on
    BootTimes,  \* the seconds of the day at which it is
    MaxUpdates  \* bound: the updates of the chip during cmos_init()

\* The chip has two digits for the year, of which the driver makes 2000 to
\* 2099.  Two readings are taken within a minute: if they took longer, both
\* could be wrong in the same way, with the seconds of one minute and the
\* minutes of the next.
ASSUME CmosAssumption ==
    /\ BootDays \subseteq 10957..LastDay
    /\ BootTimes \subseteq 0..(SECS_PER_DAY - 1)
    /\ MaxUpdates \in 0..59

\* The registers in the order in which they are read.
Order == <<"SEC", "MIN", "HOUR", "MDAY", "MON", "YEAR">>
Reg == {Order[k] : k \in 1..Len(Order)}

\* The steps of a reading.
Steps == 1 + Len(Order)

VARIABLES
    start, updates, \* the chip: the second of the day at boot, and those since
    reg,            \* its registers
    update,         \* the registers that it has yet to change in an update
    regB,           \* the bits of its register B: "BIN" and "24H"
    at,             \* how far cmos_read_tm() is: 0 before the first reading
    tmp, tm,        \* the two readings
    began,          \* updates when the first of the two readings began
    tv_sec          \* what settimeofday() is called with, or -1 before

chipVars == <<start, updates, reg, update, regB>>
readVars == <<at, tmp, tm, began, tv_sec>>
cmosVars == <<day, date, start, updates, reg, update, regB, at, tmp, tm, began, tv_sec>>

Off == at = -1

-----------------------------------------------------------------------------
(***************************************************************************)
(* The clock chip: external.                                               *)
(***************************************************************************)
TimeAt(s) ==
    LET d == IF s < SECS_PER_DAY THEN date ELSE Tomorrow(date)
    IN  [SEC |-> s % 60, MIN |-> (s \div 60) % 60, HOUR |-> (s \div 3600) % 24,
         MDAY |-> d.d, MON |-> d.m, YEAR |-> d.y % 100]

Time(k) == TimeAt(start + k)

Bcd(v, b) == IF "BIN" \in b THEN v ELSE (v \div 10) * 16 + (v % 10)

Hour12(h) == IF h % 12 = 0 THEN 12 ELSE h % 12

\* Register f when its value is v, with the bits b of register B.
Shown(f, v, b) ==
    IF f # "HOUR" \/ "24H" \in b THEN Bcd(v, b)
    ELSE Bcd(Hour12(v), b) + IF v >= 12 THEN 128 ELSE 0

NoTm == [f \in Reg |-> 0]

PowerOn(s, b) ==
    /\ Off
    /\ day \in BootDays
    /\ start' = s
    /\ regB' = b
    /\ reg' = [f \in Reg |-> Shown(f, TimeAt(s)[f], b)]
    /\ at' = 0
    /\ UNCHANGED <<day, date, updates, update, tmp, tm, began, tv_sec>>

\* An update sets the bit, writes the registers in any order and clears it.
UpdateBegins ==
    /\ at \in 0..(2 * Steps)
    /\ update = {}
    /\ updates < MaxUpdates
    /\ updates' = updates + 1
    /\ update' = {f \in Reg : Time(updates')[f] # Time(updates)[f]}
    /\ UNCHANGED <<day, date, start, reg, regB, readVars>>

UpdateWrites(f) ==
    /\ f \in update
    /\ reg' = [reg EXCEPT ![f] = Shown(f, Time(updates)[f], regB)]
    /\ update' = update \ {f}
    /\ UNCHANGED <<day, date, start, updates, regB, readVars>>

-----------------------------------------------------------------------------
bcd2bin(v) == (v \div 16) * 10 + (v % 16)

\* The bit for p.m. goes first, then the digits are converted, then the hour.
Hour(h) ==
    LET v == IF "BIN" \in regB THEN h % 128 ELSE bcd2bin(h % 128)
    IN  CASE "24H" \in regB -> v
          [] "24H" \notin regB /\ h >= 128 -> IF v = 12 THEN 12 ELSE v + 12
          [] OTHER -> IF v = 12 THEN 0 ELSE v

\* What cmos_read_tm() makes of the registers r it has read.
Converted(r) ==
    LET Bin(v) == IF "BIN" \in regB THEN v ELSE bcd2bin(v)
    IN  [tm_sec |-> Bin(r["SEC"]), tm_min |-> Bin(r["MIN"]), tm_hour |-> Hour(r["HOUR"]),
         tm_mday |-> Bin(r["MDAY"]), tm_mon |-> Bin(r["MON"]) - 1,
         tm_year |-> Bin(r["YEAR"]) + 100]

(***************************************************************************)
(* cmos_read_tm(): each of the two readings is a wait for the bit to be    *)
(* clear and six reads of registers.                                       *)
(***************************************************************************)

cmos_wait ==
    /\ at \in {0, Steps}
    /\ update = {}
    /\ at' = at + 1
    /\ began' = IF at = 0 THEN updates ELSE began
    /\ UNCHANGED <<day, date, chipVars, tmp, tm, tv_sec>>

\* The next register goes to the first reading or to the second.
cmos_read ==
    /\ at \in 1..(2 * Steps - 1) \ {Steps}
    /\ LET f == Order[at % Steps]
       IN  IF at < Steps
           THEN tmp' = [tmp EXCEPT ![f] = reg[f]] /\ UNCHANGED tm
           ELSE tm' = [tm EXCEPT ![f] = reg[f]] /\ UNCHANGED tmp
    /\ at' = at + 1
    /\ UNCHANGED <<day, date, chipVars, began, tv_sec>>

\* Mutant: the second reading is taken as it is.
AlwaysAgree == TRUE

Agree == tmp = tm

\* Once more, from the beginning.
cmos_again ==
    /\ at = 2 * Steps
    /\ ~Agree
    /\ at' = 0
    /\ tmp' = NoTm /\ tm' = NoTm
    /\ UNCHANGED <<day, date, chipVars, began, tv_sec>>

\* The rest of cmos_init().  The chip is not read again, and its registers are
\* forgotten.
cmos_init ==
    /\ at = 2 * Steps
    /\ Agree
    /\ at' = at + 1
    /\ tv_sec' = mktime(Converted(tm))
    /\ tmp' = NoTm /\ tm' = NoTm
    /\ reg' = NoTm /\ update' = {} /\ regB' = {}
    /\ UNCHANGED <<day, date, start, updates, began>>

-----------------------------------------------------------------------------
CmosInit ==
    /\ CalendarInit
    /\ start = 0 /\ updates = 0
    /\ reg = NoTm /\ update = {} /\ regB = {}
    /\ at = -1
    /\ tmp = NoTm /\ tm = NoTm
    /\ began = 0
    /\ tv_sec = -1

DayPasses == Off /\ CalendarNext /\ UNCHANGED <<chipVars, readVars>>

\* Everything up to the end of cmos_init().
CmosNext ==
    \/ DayPasses
    \/ \E s \in BootTimes, b \in SUBSET {"BIN", "24H"} : PowerOn(s, b)
    \/ UpdateBegins
    \/ \E f \in Reg : UpdateWrites(f)
    \/ cmos_wait \/ cmos_read \/ cmos_again

-----------------------------------------------------------------------------
(***************************************************************************)
(* Properties.                                                             *)
(***************************************************************************)
\* The wall clock is set to a time that the chip showed while it was being
\* read, whatever registers it changed between the reads, at the turn of the
\* year, before a leap day, and in each of its modes.
ReadsRealTime ==
    tv_sec # -1 => \E k \in began..updates : tv_sec = day * SECS_PER_DAY + start + k
=============================================================================
