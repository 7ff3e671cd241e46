----------------------------- MODULE Timestamps -----------------------------
(***************************************************************************)
(* util/fast_timestamp.hpp, util/rdtsc_timestamp.hpp and                   *)
(* parser/timestamp_parser.hpp: UTCTimestamp (YYYYMMDD-HH:MM:SS.mmm),      *)
(* written by a generator that keeps its text and renews only what         *)
(* changed, read by a byte parser and by an AVX2 parser, and turned into   *)
(* milliseconds since the epoch.                                           *)
(*                                                                         *)
(* A character is its code.  An instant is a day, the second of that day   *)
(* and the millisecond, for 64-bit products are beyond TLC's integers; it  *)
(* carries its civil date, which the generators take from std::chrono      *)
(* (external).  The instants are any the clock may show, in any order: a   *)
(* clock may be set back, and RdtscClock may jump when it is calibrated.   *)
(***************************************************************************)
EXTENDS Integers, SequencesExt, FiniteSetsExt

CONSTANTS Years, Months, Days, Seconds, Millis   \* the instants are put together of these

VARIABLES generator,       \* "FastTimestamp" or "RdtscTimestamp"
          buffer_,         \* the text, position i at buffer_[i + 1]
          cached_second_,
          last_ns_,        \* RdtscTimestamp's high-water mark
          asked            \* the instant the last call of get wrote (history)

vars == <<generator, buffer_, cached_second_, last_ns_, asked>>

(***************************************************************************)
(* The calendar, by counting (std::chrono, and the reference).             *)
(***************************************************************************)
Leap(y) == y % 4 = 0 /\ (y % 100 # 0 \/ y % 400 = 0)

MonthLength(y, mon) == CASE mon = 2 -> IF Leap(y) THEN 29 ELSE 28
                         [] mon \in {4, 6, 9, 11} -> 30
                         [] OTHER -> 31

DayNumber(y, mon, d) == 365 * (y - 1970) + Cardinality({x \in 1970 .. (y - 1) : Leap(x)})
                            + SumFunction([k \in 1 .. (mon - 1) |-> MonthLength(y, k)]) + d - 1

Epoch == [year |-> 1970, month |-> 1, day |-> 1, sec |-> 0, ms |-> 0]

Instants == {t \in [year : Years, month : Months, day : Days, sec : Seconds, ms : Millis] :
                t.day <= MonthLength(t.year, t.month)}

Second(t) == [t EXCEPT !.ms = 0]

Before(a, b) ==
    LET da == DayNumber(a.year, a.month, a.day)
        db == DayNumber(b.year, b.month, b.day)
    IN  da < db \/ (da = db /\ (a.sec < b.sec \/ (a.sec = b.sec /\ a.ms < b.ms)))

(***************************************************************************)
(* The generators.                                                         *)
(***************************************************************************)
Zero == 48

\* n in k digits.
Digits(n, k) == [i \in 1 .. k |-> Zero + ((n \div 10^(k - i)) % 10)]

Template == Digits(0, 8) \o <<45>> \o Digits(0, 2) \o <<58>> \o Digits(0, 2) \o <<58>>
                \o Digits(0, 2) \o <<46>> \o Digits(0, 3)

\* text with s stored from position i on.
Written(text, i, s) == [j \in DOMAIN text |-> IF j \in (i + 1) .. (i + Len(s)) THEN s[j - i] ELSE text[j]]

update_milliseconds(text, t) == Written(text, 18, Digits(t.ms, 3))

update_full(text, t) ==
    LET date == Written(text, 0, Digits(t.year, 4) \o Digits(t.month, 2) \o Digits(t.day, 2))
        hour == Written(date, 9, Digits(t.sec \div 3600, 2))
    IN  Written(Written(hour, 12, Digits((t.sec \div 60) % 60, 2)), 15, Digits(t.sec % 60, 2))

Init == /\ generator \in {"FastTimestamp", "RdtscTimestamp"}
        /\ buffer_ = Template
        /\ cached_second_ = Epoch /\ last_ns_ = Epoch /\ asked = Epoch

\* A generator that compares the time of day alone.
SecondChanged_tod(t) == t.sec # cached_second_.sec

SecondChanged(t) == Second(t) # cached_second_

\* What both get functions do with the instant.
Write(t) ==
    /\ buffer_' = update_milliseconds(IF SecondChanged(t) THEN update_full(buffer_, t) ELSE buffer_, t)
    /\ cached_second_' = Second(t)
    /\ asked' = t
    /\ UNCHANGED generator

FastTimestamp_get(t) == generator = "FastTimestamp" /\ Write(t) /\ UNCHANGED last_ns_

\* The instant is raised to the latest one written.
RdtscTimestamp_get(t) ==
    /\ generator = "RdtscTimestamp"
    /\ last_ns_' = IF Before(t, last_ns_) THEN last_ns_ ELSE t
    /\ Write(last_ns_')

Next == \E t \in Instants : FastTimestamp_get(t) \/ RdtscTimestamp_get(t)

Spec == Init /\ [][Next]_vars

(***************************************************************************)
(* The parsers.                                                            *)
(***************************************************************************)
FIX_TIMESTAMP_LEN == 21

Nothing == <<>>

validate_separators(s) == s[9] = 45 /\ s[12] = 58 /\ s[15] = 58 /\ s[18] = 46

DigitPositions == (1 .. 21) \ {9, 12, 15, 18}

validate_ranges(ts) == /\ ts.month \in 1 .. 12 /\ ts.day \in 1 .. 31
                       /\ ts.hour <= 23 /\ ts.minute <= 59 /\ ts.second <= 59 /\ ts.millis <= 999

\* The components, of the digit values v.
Components(v) ==
    [year |-> v[1] * 1000 + v[2] * 100 + v[3] * 10 + v[4],
     month |-> v[5] * 10 + v[6], day |-> v[7] * 10 + v[8],
     hour |-> v[10] * 10 + v[11], minute |-> v[13] * 10 + v[14], second |-> v[16] * 10 + v[17],
     millis |-> v[19] * 100 + v[20] * 10 + v[21]]

Checked(ts) == IF validate_ranges(ts) THEN <<ts>> ELSE Nothing

parse_timestamp_scalar(s) ==
    IF \/ Len(s) < FIX_TIMESTAMP_LEN
       \/ ~validate_separators(s)
       \/ \E i \in DigitPositions : s[i] \notin 48 .. 57
    THEN Nothing
    ELSE Checked(Components([i \in DigitPositions |-> s[i] - Zero]))

\* 32 lanes of 8 bits: '0' is subtracted modulo 256, and a lane is refused if
\* it is, as a signed byte, negative or above 9.
parse_timestamp_simd(s) ==
    LET lane(i) == (s[i] - Zero) % 256
        signed(b) == IF b >= 128 THEN b - 256 ELSE b
    IN  IF Len(s) < 32 THEN parse_timestamp_scalar(s)
        ELSE IF \/ ~validate_separators(s)
                \/ \E i \in DigitPositions : signed(lane(i)) > 9 \/ signed(lane(i)) < 0
        THEN Nothing
        ELSE Checked(Components([i \in DigitPositions |-> lane(i)]))

\* Days since the epoch, with March as the first month of the year, and the
\* milliseconds of the day.
to_epoch_ms(ts) ==
    LET y   == ts.year - (IF ts.month <= 2 THEN 1 ELSE 0)
        era == (IF y >= 0 THEN y ELSE y - 399) \div 400
        yoe == y - era * 400
        doy == (153 * (ts.month + (IF ts.month > 2 THEN -3 ELSE 9)) + 2) \div 5 + ts.day - 1
        doe == yoe * 365 + yoe \div 4 - yoe \div 100 + doy
    IN  [days |-> era * 146097 + doe - 719468,
         ms   |-> ts.hour * 3600000 + ts.minute * 60000 + ts.second * 1000 + ts.millis]

(***************************************************************************)
(* Properties.                                                             *)
(***************************************************************************)
\* Codes next to the ones a timestamp is made of, and of no ASCII character.
OddCodes == {0, 45, 46, 47, 48, 51, 57, 58, 176, 255}

Padding == [i \in 1 .. 11 |-> 1]

\* The text a generator returns denotes the instant, whichever instants came
\* before it and in whatever order; parsing and converting it gives back that
\* instant, leap days and centuries included; and the AVX2 parser gives what
\* the byte parser gives, also when any one character is wrong
\* (FastTimestamp::get, RdtscTimestamp::get, parse_timestamp, to_epoch_ms).
TimesExact ==
    /\ asked # Epoch =>
          LET ts == parse_timestamp_scalar(buffer_)
          IN  /\ ts # Nothing
              /\ to_epoch_ms(ts[1]) = [days |-> DayNumber(asked.year, asked.month, asked.day),
                                       ms   |-> asked.sec * 1000 + asked.ms]
    /\ \A i \in DOMAIN buffer_, c \in OddCodes :
          LET s == [buffer_ EXCEPT ![i] = c]
          IN  parse_timestamp_simd(s \o Padding) = parse_timestamp_scalar(s)
    /\ generator = "RdtscTimestamp" => asked = last_ns_
=============================================================================
