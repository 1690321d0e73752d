--------------------------- MODULE RedisResponse ---------------------------
(***************************************************************************)
(* The wire format of RedisClient (src/sandbox/src/redis_client.cpp):      *)
(* parse_value, which decodes the body of a reply, and the layout of a     *)
(* request.  A cell stands for one field or byte of the wire: a tag, a     *)
(* 4-byte length, half of an 8-byte number, a byte of a string.  A cell    *)
(* outside the buffer reads as Wild.                                       *)
(***************************************************************************)
EXTENDS Integers, Sequences

Wild == -1

Nil == 0
Error == 1
Str == 2
Int64 == 3
Dbl == 4
Arr == 5

Cell(buf, i) == IF i < Len(buf) THEN buf[i + 1] ELSE Wild

Cells(buf, from, n) == [i \in 1..n |-> Cell(buf, from + i - 1)]

\* Faulty variant: one cell too few is asked for.
Need1Less(buf, pos, n) == Len(buf) - pos >= n - 1

\* need(n): are n cells left?
Need(buf, pos, n) == Len(buf) - pos >= n

\* A Result<Response>: an Error of some Errc, or a value and the new pos.
Failed(errc) == [ok |-> FALSE, errc |-> errc]
Err == Failed("protocol")
Ok(value, pos) == [ok |-> TRUE, value |-> value, pos |-> pos]

\* A length field at pos, then as many cells.
ParseBytes(buf, pos) ==
    LET n == Cell(buf, pos)
    IN IF Need(buf, pos, 1) /\ Need(buf, pos + 1, n)
       THEN Ok(Cells(buf, pos + 1, n), pos + 1 + n)
       ELSE Err

\* The elements of an array follow its length, which is at p; the first error
\* ends it.  value[p] is what there is to parse at p.  Two limits of the machine
\* are left out: reserve(count), which may throw before the elements are looked
\* at, and the stack that nested arrays need.
ParseArray(buf, value, p) ==
    LET elems[i \in 0..Cell(buf, p)] ==
            IF i = 0 THEN Ok(<<>>, p + 1)
            ELSE LET arr == elems[i - 1]
                     elem == value[arr.pos]
                 IN IF arr.ok /\ elem.ok
                    THEN Ok(Append(arr.value, elem.value), elem.pos)
                    ELSE Err
    IN elems[Cell(buf, p)]

\* One value; a tag outside the enum is an error.
ParseAt(buf, value, at) ==
    LET tag == Cell(buf, at)
        p == at + 1
        msg == ParseBytes(buf, p + 1)
        s == ParseBytes(buf, p)
        arr == ParseArray(buf, value, p)
    IN CASE at >= Len(buf) -> Err
         [] tag = Nil -> Ok([tag |-> Nil], p)
         [] tag = Error ->
               IF ~Need(buf, p, 2) \/ ~msg.ok THEN Err
               ELSE Ok([tag |-> Error, err_code |-> Cell(buf, p),
                        err_msg |-> msg.value], msg.pos)
         [] tag = Str ->
               IF ~s.ok THEN Err ELSE Ok([tag |-> Str, str |-> s.value], s.pos)
         [] tag \in {Int64, Dbl} ->
               IF ~Need(buf, p, 2) THEN Err
               ELSE Ok([tag |-> tag, number |-> Cells(buf, p, 2)], p + 2)
         [] tag = Arr ->
               IF ~Need(buf, p, 1) \/ ~arr.ok THEN Err
               ELSE Ok([tag |-> Arr, arr |-> arr.value], arr.pos)
         [] OTHER -> Err

\* The value at pos, and those in it.
parse_value(buf, pos) ==
    LET value[at \in 0..Len(buf)] == ParseAt(buf, value, at) IN value[pos]

\* The length of a request, as send() computes it.
Payload(args) ==
    LET payload[k \in 0..Len(args)] ==
            IF k = 0 THEN 1 ELSE payload[k - 1] + 1 + Len(args[k])
    IN payload[Len(args)]

\* Each argument after its length.
Layout(args) ==
    LET msg[k \in 0..Len(args)] ==
            IF k = 0 THEN <<>> ELSE msg[k - 1] \o <<Len(args[k])>> \o args[k]
    IN msg[Len(args)]

\* What send() writes: payload, count and arguments.
Request(args) == <<Payload(args), Len(args)>> \o Layout(args)

-----------------------------------------------------------------------------
\* The reference: how a server that follows the same format reads the arguments
\* of a request, one after the other.
ReadArgs(cells, count) ==
    LET off[k \in 0..count] ==
            IF k = 0 THEN 0 ELSE off[k - 1] + 1 + Cell(cells, off[k - 1])
    IN [k \in 1..count |-> Cells(cells, off[k - 1] + 1, Cell(cells, off[k - 1]))]
=============================================================================
