------------------------------ MODULE Options ------------------------------
(***************************************************************************)
(* parse_args and parse_num (src/sandbox/src/main.cpp:39-112).  An option  *)
(* is a flag, as getopt_long returns it, with its argument.  The argument  *)
(* of a numeric flag is the number it spells, or Junk: a sign, a blank or  *)
(* anything else from_chars does not take to its end.                      *)
(***************************************************************************)
EXTENDS Integers, Sequences, FiniteSetsExt

CONSTANTS
    Port16,     \* 2^16
    Restarts32, \* 2^32
    Num64       \* 2^64

ASSUME OptionsAssumption ==
    {Port16, Restarts32, Num64} \subseteq Nat /\ 0 < Port16 /\ Port16 < Num64

Junk == -1

\* The fields of Options under the letters of their flags.
Defaults == [h |-> "127.0.0.1", p |-> 1234, i |-> "cpp-sandbox-1", t |-> "local",
             m |-> 9090, n |-> "seccomp", r |-> 3]

\* Does raw spell a number below 2^w, the range of T?
parse_num(raw, range) == raw # Junk /\ raw < range

\* Faulty variant: the value is checked after the cast to 16 bits.
PortAfterCast(raw) == parse_num(raw, Num64) /\ raw % Port16 < Port16

\* --port and --metrics-port are read as 64 bits wide.
PortAccepted(raw) == parse_num(raw, Num64) /\ raw < Port16

\* An option that ends the parsing with an Error: a bad flag or argument.
Rejected(option) ==
    CASE option.flag = "?" -> TRUE
      [] option.flag \in {"p", "m"} -> ~PortAccepted(option.arg)
      [] option.flag = "r" -> ~parse_num(option.arg, Restarts32)
      [] OTHER -> FALSE

\* What an accepted option leaves in its field.
Stored(option) ==
    IF option.flag \in {"p", "m"} THEN option.arg % Port16 ELSE option.arg

\* One turn of the loop; a return ends it.
Take(result, option) ==
    IF result.returned # "no" THEN result
    ELSE IF Rejected(option) THEN [result EXCEPT !.returned = "error"]
    ELSE IF option.flag = "H" THEN [result EXCEPT !.returned = "help"]
    ELSE [result EXCEPT !.o[option.flag] = Stored(option)]

\* The loop over what getopt_long returns.
parse_args(options) ==
    LET result[k \in 0..Len(options)] ==
            IF k = 0 THEN [returned |-> "no", o |-> Defaults]
            ELSE Take(result[k - 1], options[k])
    IN result[Len(options)]

-----------------------------------------------------------------------------
\* The reference: the first --help or wrong option decides, whatever follows
\* it; otherwise each field has its default or exactly what the last option
\* for it spelled.
OptionsMeant(options) ==
    LET wrong(k) ==
            LET a == options[k].arg IN
            CASE options[k].flag = "?" -> TRUE
              [] options[k].flag \in {"p", "m"} -> a \notin 0..(Port16 - 1)
              [] options[k].flag = "r" -> a \notin 0..(Restarts32 - 1)
              [] OTHER -> FALSE
        ends == {k \in DOMAIN options : options[k].flag = "H" \/ wrong(k)}
        given(f) == {k \in DOMAIN options : options[k].flag = f}
    IN IF ends = {}
       THEN [returned |-> "no",
             o |-> [f \in DOMAIN Defaults |->
                       IF given(f) = {} THEN Defaults[f]
                       ELSE options[Max(given(f))].arg]]
       ELSE [returned |-> IF wrong(Min(ends)) THEN "error" ELSE "help"]
=============================================================================
