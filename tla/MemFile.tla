------------------------------ MODULE MemFile ------------------------------
(***************************************************************************)
(* The tokeniser of lib/mem_file.c with the character classes of the       *)
(* configuration file.  A text is a sequence of letters: a character that  *)
(* is not valid in a token, or a run of characters that are, which the     *)
(* scan crosses in as many rounds as it has characters.                    *)
(*                                                                         *)
(* The loops test file_oom(f), that is f->pos, while they advance a local  *)
(* pos: a scan that has begun inside the file goes on behind its end.      *)
(* There it reads beyond, whatever memory holds, and then faults.          *)
(***************************************************************************)
EXTENDS Integers, Sequences

LINE_BREAK == "\n"
QUOTE == "\""
Other == "#"      \* a character of no class; a zero byte is one

is_config_whitespace(c) == c \in {" ", "\r", "\t"}
is_config_delim(c) == c = "="
is_valid_config_token_char(c) ==
    ~ is_config_whitespace(c) /\ ~ is_config_delim(c) /\ c \notin {LINE_BREAK, QUOTE, Other}

Reach(f) == Len(f.text) + Len(f.beyond)

file_at(f, p) == IF p <= Len(f.text) THEN f.text[p] ELSE f.beyond[p - Len(f.text)]

\* Mutant: the end of the file is noticed one letter late.
file_oom_late(f, p) == p > Len(f.text) + 1

file_oom(f, p) == p > Len(f.text)

\* The letters at which the scan stops: before a token, in one, or in quotes.
StopsAt(scan, c) ==
    CASE scan = "blanks" -> ~ is_config_whitespace(c)
      [] scan = "plain" -> ~ is_valid_config_token_char(c)
      [] scan = "quoted" -> c = QUOTE

\* Where a scan that began at p meets the first of them.
FirstFrom(f, p, scan) ==
    CHOOSE q \in p..(Reach(f) + 1) :
        /\ q <= Reach(f) => StopsAt(scan, file_at(f, q))
        /\ \A r \in p..(q - 1) : ~ StopsAt(scan, file_at(f, r))

Found(status, start, end, next) ==
    [status |-> status, start |-> start, end |-> end, pos |-> next]

\* A status without a token.
Stop(status, p) == Found(status, 1, 0, p)

PAGE_FAULT == "PAGE_FAULT"

\* *start < *end, in characters
MoreThanOne(f, start, end) ==
    start < end \/ (start = end /\ Len(file_at(f, start)) > 1)

QuotedToken(f, open) ==
    LET close == FirstFrom(f, open + 1, "quoted") IN
    IF close > Reach(f) THEN Stop(PAGE_FAULT, open)
    ELSE Found(IF MoreThanOne(f, open + 1, close - 1) THEN "SEEK_TOKEN" ELSE "SEEK_INVALID_SYMBOL",
               open + 1, close - 1, close + 1)

PlainToken(f, start) ==
    LET next == FirstFrom(f, start, "plain") IN
    IF next > Reach(f) THEN Stop(PAGE_FAULT, start)
    ELSE IF file_at(f, next) \in {QUOTE, Other} THEN Stop("SEEK_INVALID_SYMBOL", next)
    ELSE Found("SEEK_TOKEN", start, next - 1, next)

seek_token_in_line(f, p) ==
    LET q == FirstFrom(f, p, "blanks") IN
    CASE file_oom(f, p) -> Stop("SEEK_OOM", p)
      [] ~ file_oom(f, p) /\ q > Reach(f) -> Stop(PAGE_FAULT, p)
      [] ~ file_oom(f, p) /\ q <= Reach(f) ->
            LET c == file_at(f, q) IN
            CASE c = LINE_BREAK -> Stop("SEEK_NO_TOKEN", q)
              [] is_config_delim(c) -> Found("SEEK_TOKEN", q, q, q + 1)
              [] is_valid_config_token_char(c) -> PlainToken(f, q)
              [] c = QUOTE -> QuotedToken(f, q)
              [] c = Other -> Stop("SEEK_INVALID_SYMBOL", q)

\* __seek_newline(f, true) from a line break, where __seek_token calls it.  Behind
\* the end it leaves p, which is no more inside the file than p + 1.
seek_newline(f, p) == p + 1

\* The characters of some letters, one after the other.
Spelled(letters) ==
    LET text[n \in 0..Len(letters)] == IF n = 0 THEN "" ELSE text[n - 1] \o letters[n]
    IN  text[Len(letters)]

\* The letters of a token.
TokenLetters(f, found) == SubSeq(f.text \o f.beyond, found.start, found.end)
=============================================================================
