------------------------------ MODULE Helpers -------------------------------
(***************************************************************************)
(* Pure helpers of common.cpp and network.cpp and what they are for: the   *)
(* Internet checksum, the scan of TCP options, the lines of the            *)
(* configuration file, the columns of /proc/net files and the text of an   *)
(* address.                                                                *)
(*                                                                         *)
(* Text is a sequence of characters of which only the ones the code looks  *)
(* for are told apart; "\t" and " " are one.                               *)
(***************************************************************************)
EXTENDS Integers, FiniteSets, SequencesExt

-----------------------------------------------------------------------------
(* csum.  A run <<w, n>> is n words w; the odd byte at the end is a word   *)
(* whose other byte is 0.                                                  *)

Total(runs) == FoldLeft(LAMBDA sum, r : sum + r[1] * r[2], 0, runs)

\* Mutant: the carry of the first folding is lost.
Fold_Once(sum) == 65535 - (((sum \div 65536) + (sum % 65536)) % 65536)

\* The two foldings, and the complement in 16 bits.
Fold(sum) ==
    LET once  == (sum \div 65536) + (sum % 65536)
        twice == once + (once \div 65536)
    IN  65535 - (twice % 65536)

csum(runs) == Fold(Total(runs))
csum_with_header(header, runs) == Fold(Total(header) + Total(runs))

\* A packet that carries its checksum sums up to zero, wherever the pseudo
\* header ends, and for up to 65535 bytes; a single word changed is noticed,
\* unless it is zero in one and all ones in the other.
ChecksumVerifies(header, runs) ==
    LET check == csum_with_header(header, runs)
        sent  == Append(runs, <<check, 1>>)
    IN  /\ csum_with_header(header, sent) = 0
        /\ csum(header \o sent) = 0
        /\ \A i \in DOMAIN runs, w \in {0, 1, 32768, 65535} :
              (runs[i][2] = 1 /\ w # runs[i][1]) =>
                  (csum_with_header(header, [sent EXCEPT ![i][1] = w]) = 0
                     => {w, runs[i][1]} = {0, 65535})

-----------------------------------------------------------------------------
(* parse_tcp_option.  A byte is 0 (end), 1 (no operation), 8 (time stamp), *)
(* 10 or another number.  ts is where the time stamp was read, 0 if there  *)
(* is none; read holds the places that were looked at.                     *)

going == 1       \* the loop has not returned

\* Mutant: the length of a time stamp is believed.
TimeStamp_NoRoom(opts, st) ==
    LET end == Len(opts)
        at  == st.ptr
    IN  IF at + 1 > end THEN [st EXCEPT !.ret = -1]
        ELSE IF opts[at + 1] # 10 THEN [st EXCEPT !.ret = -1, !.read = @ \cup {at + 1}]
        ELSE [st EXCEPT !.ts = at, !.ptr = at + 10, !.read = @ \cup at .. at + 9]

TimeStamp(opts, st) ==
    LET end == Len(opts)
        at  == st.ptr
    IN  IF at + 1 > end THEN [st EXCEPT !.ret = -1]
        ELSE IF opts[at + 1] # 10 THEN [st EXCEPT !.ret = -1, !.read = @ \cup {at + 1}]
        ELSE IF at + 10 > end + 1 THEN [st EXCEPT !.ret = -1, !.read = @ \cup {at + 1}]
        ELSE [st EXCEPT !.ts = at, !.ptr = at + 10, !.read = @ \cup at .. at + 9]

\* Any other option is passed over by its length, which is not compared with
\* what is left: the loop ends then.
OtherOption(opts, st) ==
    LET at == st.ptr
    IN  IF at + 1 > Len(opts) THEN [st EXCEPT !.ret = -1]
        ELSE IF opts[at + 1] <= 1 THEN [st EXCEPT !.ret = -1, !.read = @ \cup {at + 1}]
        ELSE [st EXCEPT !.ptr = at + opts[at + 1], !.read = @ \cup {at + 1}]

parse_tcp_option(opts) ==
    LET turn(st, i) ==
            LET seen == [st EXCEPT !.read = @ \cup {st.ptr}]
            IN  IF st.ret # going THEN st
                ELSE IF st.ptr > Len(opts) THEN [st EXCEPT !.ret = 0]
                ELSE CASE opts[st.ptr] = 0 -> [seen EXCEPT !.ret = 0]
                       [] opts[st.ptr] = 1 -> [seen EXCEPT !.ptr = @ + 1]
                       [] opts[st.ptr] = 8 -> TimeStamp(opts, seen)
                       [] OTHER -> OtherOption(opts, seen)
    IN  FoldLeft(turn, [ptr |-> 1, ret |-> going, ts |-> 0, read |-> {}],
                 [i \in 1 .. Len(opts) + 1 |-> i])

\* The places where options begin: all those reached from the first one, an
\* option that is neither an end nor malformed being followed by the next.
Follows(opts, p) ==
    CASE opts[p] = 0 -> {}
      [] opts[p] = 1 -> {p + 1}
      [] OTHER -> IF p = Len(opts) \/ opts[p + 1] <= 1 THEN {}
                  ELSE IF opts[p] = 8 /\ (opts[p + 1] # 10 \/ p + 9 > Len(opts)) THEN {}
                  ELSE {p + opts[p + 1]}
Begins(opts) ==
    LET P == DOMAIN opts
        within[k \in 0 .. Len(opts)] ==
            IF k = 0 THEN {1} \cap P
            ELSE within[k - 1] \cup UNION {Follows(opts, p) \cap P : p \in within[k - 1]}
    IN  within[Len(opts)]

\* The scan ends within the options, reads nothing behind them, and reports
\* the last time stamp among the options that come before an end or a
\* malformed one.
OptionScan(opts) ==
    LET got == parse_tcp_option(opts)
        stamps == {p \in Begins(opts) : opts[p] = 8 /\ Follows(opts, p) # {}}
    IN  /\ got.ret \in {0, -1}
        /\ got.read \subseteq DOMAIN opts
        /\ got.ts = IF stamps = {} THEN 0 ELSE CHOOSE p \in stamps : \A q \in stamps : q <= p

-----------------------------------------------------------------------------
(* Text. *)

Blank == " "
SkipBlanks(s) ==
    LET k == {i \in DOMAIN s : s[i] # Blank}
    IN  IF k = {} THEN << >> ELSE SubSeq(s, CHOOSE i \in k : \A j \in k : i <= j, Len(s))
CutBlanks(s) == Reverse(SkipBlanks(Reverse(s)))
FirstBlank(s) ==
    IF Contains(s, Blank) THEN CHOOSE i \in DOMAIN s : s[i] = Blank /\ \A j \in 1 .. i - 1 : s[j] # Blank
    ELSE Len(s) + 1

exited == <<"exit">>

\* Mutant: the value ends at the next blank.
parse_conf_line_Word(s) ==
    LET p == SkipBlanks(CutBlanks(s))
        i == FirstBlank(p)
        v == SkipBlanks(SubSeq(p, i, Len(p)))
    IN  IF p = << >> \/ p[1] = "#" THEN << >>
        ELSE IF p[1] # "-" THEN exited
        ELSE IF i = Len(p) + 1 THEN <<p>>
        ELSE <<SubSeq(p, 1, i - 1), SubSeq(v, 1, FirstBlank(v) - 1)>>

parse_conf_line(s) ==
    LET p == SkipBlanks(CutBlanks(s))
        i == FirstBlank(p)
    IN  IF p = << >> \/ p[1] = "#" THEN << >>
        ELSE IF p[1] # "-" THEN exited
        ELSE IF i = Len(p) + 1 THEN <<p>>
        ELSE <<SubSeq(p, 1, i - 1), SkipBlanks(SubSeq(p, i, Len(p)))>>

\* string_to_vec with strtok: one character after the other, tok being the
\* token under way.
string_to_vec(s) ==
    LET end == FoldLeft(
            LAMBDA st, ch : IF ch # Blank THEN [st EXCEPT !.tok = Append(@, ch)]
                            ELSE IF st.tok = << >> THEN st
                            ELSE [res |-> Append(st.res, st.tok), tok |-> << >>],
            [res |-> << >>, tok |-> << >>], s)
    IN  IF end.tok = << >> THEN end.res ELSE Append(end.res, end.tok)

Blanks(n) == [i \in 1 .. n |-> Blank]
Word(w) == w # << >> /\ ~Contains(w, Blank)

\* A line means an option and the rest of the line, blanks inside included,
\* if it is blanks, an option, and then blanks or blanks, a value and blanks;
\* an empty line and a comment mean nothing, another line ends the program.
\* strtok finds the maximal runs without a blank, in order.
LineMeaning(s) ==
    LET got == parse_conf_line(s)
        n == Len(s)
        Cut(i, j) == SubSeq(s, i, j)
        AllBlank(i, j) == Cut(i, j) = Blanks(j - i + 1)
        runs == {r \in (1 .. n) \X (1 .. n) :
                   /\ r[1] <= r[2] /\ Word(Cut(r[1], r[2]))
                   /\ r[1] = 1 \/ s[r[1] - 1] = Blank
                   /\ r[2] = n \/ s[r[2] + 1] = Blank}
        first == CHOOSE r \in runs : \A q \in runs : r[1] <= q[1]
        last  == CHOOSE r \in runs : \A q \in runs : q[1] <= r[1]
    IN  /\ got = IF runs = {} THEN << >>
                 ELSE IF s[first[1]] = "#" THEN << >>
                 ELSE IF s[first[1]] # "-" THEN exited
                 ELSE IF first = last THEN <<Cut(first[1], first[2])>>
                 ELSE <<Cut(first[1], first[2]),
                        Cut((CHOOSE r \in runs \ {first} : \A q \in runs \ {first} : r[1] <= q[1])[1], last[2])>>
        /\ string_to_vec(s) = [k \in 1 .. Cardinality(runs) |->
              LET r == CHOOSE q \in runs : Cardinality({o \in runs : o[1] <= q[1]}) = k
              IN  Cut(r[1], r[2])]

-----------------------------------------------------------------------------
(* address_t.  "4" stands for the text of an IPv4 address, "g" for a group *)
(* of an IPv6 address, which is g:g here; "p" is a port, "P" a number      *)
(* above 65535.                                                            *)

inet_pton(text) ==
    CASE text = <<"4">> -> 4 [] text = <<"g", ":", "g">> -> 6 [] OTHER -> 0

Port(s) == IF s # << >> /\ s[1] \in {"p", "P"} THEN s[1] ELSE "none"

\* sscanf of "[%[^]]]:%u": what is between the brackets, and the port.
scan6(s) ==
    LET close == {i \in DOMAIN s : s[i] = "]" /\ \A j \in 2 .. i - 1 : s[j] # "]"}
        e == CHOOSE i \in close : TRUE
    IN  IF s # << >> /\ s[1] = "[" /\ close # {} /\ e > 2 /\ e < Len(s) /\ s[e + 1] = ":"
        THEN <<SubSeq(s, 2, e - 1), Port(SubSeq(s, e + 2, Len(s)))>> ELSE <<<< >>, "none">>

\* sscanf of "%[^:]:%u".
scan4(s) ==
    LET colon == {i \in DOMAIN s : s[i] = ":" /\ \A j \in 1 .. i - 1 : s[j] # ":"}
        e == CHOOSE i \in colon : TRUE
    IN  IF colon # {} /\ e > 1
        THEN <<SubSeq(s, 1, e - 1), Port(SubSeq(s, e + 1, Len(s)))>> ELSE <<<< >>, "none">>

from_str(s) ==
    LET six == scan6(s)[2] # "none"
        got == IF six THEN scan6(s) ELSE scan4(s)
    IN  IF got[2] # "p" THEN exited
        ELSE IF inet_pton(got[1]) # (IF six THEN 6 ELSE 4) THEN exited
        ELSE <<IF six THEN 6 ELSE 4, got[2]>>

from_str_ip_only(s) ==
    LET type == IF Contains(s, ":") THEN 6 ELSE 4
    IN  IF inet_pton(s) = type THEN type ELSE 0

get_ip(a) == IF a[1] = 6 THEN <<"g", ":", "g">> ELSE <<"4">>
to_str(a) ==
    IF a[1] = 6 THEN <<"[">> \o get_ip(a) \o <<"]", ":", a[2]>> ELSE get_ip(a) \o <<":", a[2]>>

\* An address is read from its text and from nothing else but the text with
\* something behind the port: every other text ends the program.
AddressReadBack(s) ==
    /\ \A a \in {<<4, "p">>, <<6, "p">>} :
          /\ from_str(to_str(a)) = a
          /\ from_str_ip_only(get_ip(a)) = a[1]
          /\ from_str(s) = a <=> IsPrefix(to_str(a), s)
          /\ from_str_ip_only(s) = a[1] <=> s = get_ip(a)
    /\ from_str(s) \in {exited, <<4, "p">>, <<6, "p">>}
=============================================================================
